---- MODULE Spec2Model ----
(***************************************************************************)
(* Model of the MedTrack analytics ETL pipeline                            *)
(* (app/pipeline/data_pipeline.py, class PharmaDataPipeline) and of the     *)
(* callers that drive it (app/api/pipeline_routes.py).                      *)
(* The data quality monitor (app/pipeline/data_quality.py) and the          *)
(* scheduler (app/pipeline/pipeline_runner.py) are modelled next to it,     *)
(* each under a specification of its own, as are the scoring arithmetic    *)
(* of the monitor (SpecScore) and the create_sale request handler           *)
(* (app/api/sales_routes.py, SpecSales).                                    *)
(*                                                                         *)
(* A tabular record set (pandas DataFrame) is a record                      *)
(*     [cols |-> set of column names, rows |-> sequence of rows]            *)
(* and a row is [idx |-> position in the source, v |-> [cols -> value]].    *)
(* Cell values are abstracted to the classes the code distinguishes:        *)
(* "null" (missing), "bad" (text that is neither a number nor a date),      *)
(* "txt" (free text), "pos"/"zero"/"neg" (numbers by sign) and              *)
(* "past"/"future" (parseable dates relative to today).                     *)
(***************************************************************************)
EXTENDS Integers, Sequences, FiniteSets, TLC

\* ------------------------------------------------------------------ bounds
\* run_etl_pipeline calls the requests may make in total (a daily batch
\* reserves one per data type)
MaxRuns == 3

\* chunk sizes explored: 1 .. MaxChunk
MaxChunk == 2

\* direct load_to_database calls explored
MaxLoads == 2

\* rows of a record set handed to a transform on its own
MaxRows == 2

\* rows of the drugs, sales and patients tables the monitor starts from
MaxDrugs == 2
MaxSales == 2
MaxPatients == 1

\* fix_data_issues / run_comprehensive_quality_check calls in one behaviour
MaxCalls == 2

\* start() calls on the one PipelineScheduler, and moments at which a
\* registered job comes due
MaxStarts == 2
MaxTicks == 2

\* scores given to the grade mapping, in hundredths of a percent
MaxScore == 10000

\* consistency issue totals and accuracy issue counts given to the scoring
MaxTotal == 11
MaxAccuracy == 4

\* create_sale requests handled at the same time, the stock of the drug
\* they ask for, and the quantity one request may ask for
MaxRequests == 2
MaxStock == 3
MaxQuantity == 2

\* ------------------------------------------------------------- value model
NULL == "null"
NumVals == {"pos", "zero", "neg"}
DateVals == {"past", "future"}

\* pd.to_numeric(series, errors='coerce'), per cell
ToNumeric(v) == IF v \in NumVals THEN v ELSE NULL

\* pd.to_datetime(series, errors='coerce'), per cell
ToDatetime(v) == IF v \in DateVals THEN v ELSE NULL

\* product of two numeric cells (NaN propagates)
Mul(a, b) ==
    IF a = NULL \/ b = NULL THEN NULL
    ELSE IF a = "zero" \/ b = "zero" THEN "zero"
    ELSE IF a = b THEN "pos" ELSE "neg"

\* ------------------------------------------------------- record set helpers
\* the rows of s at the positions in keep, in order: df[mask]
Pick(s, keep) ==
    [k \in 1..Cardinality(keep) |->
       s[CHOOSE i \in keep : Cardinality({j \in keep : j <= i}) = k]]

\* one row under df.columns = [mapping.get(col, col) for col in df.columns],
\* where names is the function col |-> mapping.get(col, col)
RenameRow(v, names) ==
    [n \in {names[c] : c \in DOMAIN v} |->
       v[CHOOSE c \in DOMAIN v : names[c] = n]]

\* df.dropna(subset=cols); the caller checks that subset \subseteq df.cols
DropNa(df, subset) ==
    [cols |-> df.cols,
     rows |-> Pick(df.rows, {i \in 1..Len(df.rows) :
                               \A c \in subset : df.rows[i].v[c] # NULL})]

\* number of rows whose cell in column col is null: df[col].isna().sum()
NullCount(df, col) ==
    Cardinality({i \in 1..Len(df.rows) : df.rows[i].v[col] = NULL})

\* a call that raised, and a call that returned a record set
Raised == [raised |-> TRUE, df |-> [cols |-> {}, rows |-> <<>>]]
Returned(df) == [raised |-> FALSE, df |-> df]

\* --------------------------------------------------------------- transforms
\* column_mapping.get(c, c) of transform_drugs
DrugColumnMapping(c) ==
    CASE c = "DrugCode" -> "drug_code"
      [] c = "DrugName" -> "drug_name"
      [] c = "GenericName" -> "generic_name"
      [] c = "Manufacturer" -> "manufacturer"
      [] c = "Category" -> "category"
      [] c = "UnitPrice" -> "unit_price"
      [] c = "Stock" -> "stock_quantity"
      [] c = "ExpiryDate" -> "expiry_date"
      [] c = "Drug_ID" -> "drug_code"
      [] c = "Product_Name" -> "drug_name"
      [] c = "MFR" -> "manufacturer"
      [] OTHER -> c

\* transform_drugs, the type coercions on one renamed row: unit_price to a
\* number, stock_quantity to a number with 0 for null, expiry_date to a date
DrugCoerced(v) ==
    [c \in DOMAIN v |->
       IF c = "unit_price" THEN ToNumeric(v[c])
       ELSE IF c = "stock_quantity"
            THEN (IF ToNumeric(v[c]) = NULL THEN "zero" ELSE ToNumeric(v[c]))
       ELSE IF c = "expiry_date" THEN ToDatetime(v[c])
       ELSE v[c]]

\* transform_drugs, the columns added to one surviving row: the defaults for
\* absent category / min_stock_level / max_stock_level, stock_value, and
\* days_to_expiry when there is an expiry_date column
DrugDerived(v) ==
    [c \in DOMAIN v \cup {"category", "min_stock_level", "max_stock_level",
                          "stock_value"}
           \cup (IF "expiry_date" \in DOMAIN v THEN {"days_to_expiry"} ELSE {}) |->
       IF c = "stock_value" THEN Mul(v["unit_price"], v["stock_quantity"])
       ELSE IF c = "days_to_expiry"
            THEN (IF v["expiry_date"] = "past" THEN "neg"
                  ELSE IF v["expiry_date"] = "future" THEN "pos" ELSE NULL)
       ELSE IF c \in DOMAIN v THEN v[c]
       ELSE IF c = "category" THEN "txt"
       ELSE "pos"]

\* transform_drugs: rename, coerce, dropna on drug_code and drug_name, then
\* defaults and derived columns; a missing column that the code indexes
\* unconditionally (dropna subset, stock_value operands) raises KeyError
transform_drugs(df) ==
    LET names == [c \in df.cols |-> DrugColumnMapping(c)]
        cols == {names[c] : c \in df.cols}
        coerced == [cols |-> cols,
                    rows |-> [i \in 1..Len(df.rows) |->
                                [idx |-> df.rows[i].idx,
                                 v |-> DrugCoerced(RenameRow(df.rows[i].v, names))]]]
        kept == DropNa(coerced, {"drug_code", "drug_name"})
    IN IF {"drug_code", "drug_name", "unit_price", "stock_quantity"} \subseteq cols
       THEN Returned(
              [cols |-> cols \cup {"category", "min_stock_level",
                                   "max_stock_level", "stock_value"}
                             \cup (IF "expiry_date" \in cols
                                   THEN {"days_to_expiry"} ELSE {}),
               rows |-> [i \in 1..Len(kept.rows) |->
                           [idx |-> kept.rows[i].idx,
                            v |-> DrugDerived(kept.rows[i].v)]]])
       ELSE Raised

\* column_mapping.get(c, c) of transform_sales
SaleColumnMapping(c) ==
    CASE c = "TransactionID" -> "transaction_id"
      [] c = "SaleDate" -> "sale_date"
      [] c = "DrugID" -> "drug_id"
      [] c = "Quantity" -> "quantity"
      [] c = "Price" -> "unit_price"
      [] c = "Total" -> "total_amount"
      [] c = "Pharmacy" -> "pharmacy_name"
      [] c = "PaymentMethod" -> "payment_method"
      [] OTHER -> c

\* the columns transform_sales coerces to numbers
SaleNumericCols == {"quantity", "unit_price", "total_amount", "discount", "tax_amount"}

\* transform_sales, the type coercions on one renamed row
SaleCoerced(v) ==
    [c \in DOMAIN v |->
       IF c = "sale_date" THEN ToDatetime(v[c])
       ELSE IF c \in SaleNumericCols THEN ToNumeric(v[c])
       ELSE v[c]]

\* transform_sales, the columns added to one coerced row: total_amount when
\* absent and computable, and the calendar parts of sale_date
SaleDerived(v) ==
    [c \in DOMAIN v \cup {"year", "month", "day", "day_of_week"}
           \cup (IF {"unit_price", "quantity"} \subseteq DOMAIN v
                 THEN {"total_amount"} ELSE {}) |->
       IF c \in {"year", "month", "day"}
       THEN (IF v["sale_date"] = NULL THEN NULL ELSE "pos")
       ELSE IF c = "day_of_week"
            THEN (IF v["sale_date"] = NULL THEN NULL ELSE "txt")
       ELSE IF c \in DOMAIN v THEN v[c]
       ELSE Mul(v["unit_price"], v["quantity"])]

\* transform_sales: rename, coerce, derive, dropna on transaction_id,
\* drug_id and sale_date, then keep quantity > 0; df['sale_date'], the
\* dropna subset and df['quantity'] raise KeyError on a missing column
transform_sales(df) ==
    LET names == [c \in df.cols |-> SaleColumnMapping(c)]
        cols == {names[c] : c \in df.cols}
        derived == [cols |-> cols \cup {"year", "month", "day", "day_of_week"}
                                  \cup (IF {"unit_price", "quantity"} \subseteq cols
                                        THEN {"total_amount"} ELSE {}),
                    rows |-> [i \in 1..Len(df.rows) |->
                                [idx |-> df.rows[i].idx,
                                 v |-> SaleDerived(SaleCoerced(
                                          RenameRow(df.rows[i].v, names)))]]]
        kept == DropNa(derived, {"transaction_id", "drug_id", "sale_date"})
    IN IF {"sale_date", "transaction_id", "drug_id", "quantity"} \subseteq cols
       THEN Returned(
              [cols |-> kept.cols,
               rows |-> Pick(kept.rows, {i \in 1..Len(kept.rows) :
                                           kept.rows[i].v["quantity"] = "pos"})])
       ELSE Raised

\* column_mapping.get(c, c) of transform_patients
PatientColumnMapping(c) ==
    CASE c = "PatientID" -> "patient_code"
      [] c = "FirstName" -> "first_name"
      [] c = "LastName" -> "last_name"
      [] c = "DOB" -> "date_of_birth"
      [] c = "Gender" -> "gender"
      [] c = "Email" -> "email"
      [] c = "Phone" -> "phone"
      [] c = "Condition" -> "primary_condition"
      [] c = "Insurance" -> "insurance_id"
      [] OTHER -> c

\* a column read from CSV whose cells are all empty has a float dtype, on
\* which the .str accessor raises AttributeError
StrAccessorRaises(df, col) ==
    /\ col \in df.cols
    /\ Len(df.rows) > 0
    /\ \A i \in 1..Len(df.rows) : df.rows[i].v[col] = NULL

\* transform_patients on one renamed row: date_of_birth to a date and the
\* age from it, email kept only with an "@", gender through the mapping,
\* and a synthesized patient_code when the column is absent
PatientCleaned(v) ==
    [c \in DOMAIN v \cup {"patient_code"}
           \cup (IF "date_of_birth" \in DOMAIN v THEN {"age"} ELSE {}) |->
       IF c = "date_of_birth" THEN ToDatetime(v[c])
       ELSE IF c = "age"
            THEN (IF ToDatetime(v["date_of_birth"]) = "past" THEN "pos" ELSE "neg")
       ELSE IF c = "email" THEN (IF v[c] = "email" THEN "email" ELSE NULL)
       ELSE IF c = "gender" THEN (IF v[c] = "mf" THEN "mf" ELSE NULL)
       ELSE IF c \in DOMAIN v THEN v[c]
       ELSE "txt"]

\* transform_patients: astype(int) raises on the NaN age of an unparseable
\* date of birth; the dropna subset raises KeyError on a missing column
transform_patients(df) ==
    LET names == [c \in df.cols |-> PatientColumnMapping(c)]
        cols == {names[c] : c \in df.cols}
        renamed == [cols |-> cols,
                    rows |-> [i \in 1..Len(df.rows) |->
                                [idx |-> df.rows[i].idx,
                                 v |-> RenameRow(df.rows[i].v, names)]]]
        cleaned == [cols |-> cols \cup {"patient_code"}
                                  \cup (IF "date_of_birth" \in cols
                                        THEN {"age"} ELSE {}),
                    rows |-> [i \in 1..Len(df.rows) |->
                                [idx |-> df.rows[i].idx,
                                 v |-> PatientCleaned(
                                          RenameRow(df.rows[i].v, names))]]]
    IN IF /\ {"first_name", "last_name", "date_of_birth"} \subseteq cols
          /\ NullCount(cleaned, "date_of_birth") = 0
          /\ ~StrAccessorRaises(renamed, "email")
          /\ ~StrAccessorRaises(renamed, "gender")
       THEN Returned(DropNa(cleaned, {"first_name", "last_name", "date_of_birth"}))
       ELSE Raised

\* the dispatch on data_type in run_etl_pipeline (ValueError otherwise)
Transform(data_type, df) ==
    CASE data_type = "drugs" -> transform_drugs(df)
      [] data_type = "sales" -> transform_sales(df)
      [] data_type = "patients" -> transform_patients(df)
      [] OTHER -> Raised

\* ---------------------------------------------------------------- validator
\* required_fields / numeric_fields / date_fields of validate_data_quality,
\* in the order the code lists them
RequiredFields(data_type) ==
    CASE data_type = "drugs" -> <<"drug_code", "drug_name", "manufacturer", "unit_price">>
      [] data_type = "sales" -> <<"transaction_id", "drug_id", "sale_date", "quantity">>
      [] data_type = "patients" -> <<"first_name", "last_name", "date_of_birth">>
      [] OTHER -> <<>>

NumericFields(data_type) ==
    CASE data_type = "drugs" -> <<"unit_price", "stock_quantity">>
      [] data_type = "sales" -> <<"quantity", "unit_price", "total_amount">>
      [] data_type = "patients" -> <<"age">>
      [] OTHER -> <<>>

DateFields(data_type) ==
    CASE data_type = "drugs" -> <<"expiry_date">>
      [] data_type = "sales" -> <<"sale_date">>
      [] data_type = "patients" -> <<"date_of_birth">>
      [] OTHER -> <<>>

\* (~pd.to_numeric(df[field], errors='coerce').notna()).sum()
NonNumericCount(df, col) ==
    Cardinality({i \in 1..Len(df.rows) : ToNumeric(df.rows[i].v[col]) = NULL})

\* the issues of the loop over required_fields: one entry per field that is
\* a column of df and has a null cell
RECURSIVE MissingIssues(_, _)
MissingIssues(df, fields) ==
    IF fields = <<>> THEN <<>>
    ELSE (IF Head(fields) \in df.cols /\ NullCount(df, Head(fields)) > 0
          THEN <<[field |-> Head(fields), issue |-> "Missing values",
                  count |-> NullCount(df, Head(fields)), severity |-> "High"]>>
          ELSE <<>>)
         \o MissingIssues(df, Tail(fields))

\* the issues of the loop over numeric_fields
RECURSIVE NonNumericIssues(_, _)
NonNumericIssues(df, fields) ==
    IF fields = <<>> THEN <<>>
    ELSE (IF Head(fields) \in df.cols /\ NonNumericCount(df, Head(fields)) > 0
          THEN <<[field |-> Head(fields), issue |-> "Non-numeric values",
                  count |-> NonNumericCount(df, Head(fields)),
                  severity |-> "Medium"]>>
          ELSE <<>>)
         \o NonNumericIssues(df, Tail(fields))

\* the issues of the loop over date_fields
RECURSIVE InvalidDateIssues(_, _)
InvalidDateIssues(df, fields) ==
    IF fields = <<>> THEN <<>>
    ELSE (IF Head(fields) \in df.cols /\ NullCount(df, Head(fields)) > 0
          THEN <<[field |-> Head(fields), issue |-> "Invalid dates",
                  count |-> NullCount(df, Head(fields)), severity |-> "Medium"]>>
          ELSE <<>>)
         \o InvalidDateIssues(df, Tail(fields))

\* round(a / b * 100, 2) as an integer number of hundredths (no tie occurs
\* for b < 32)
Round2Pct(a, b) == (2 * a * 10000 + b) \div (2 * b)

\* the sum of the count entries of a list of issues
RECURSIVE SumCounts(_)
SumCounts(issues) ==
    IF issues = <<>> THEN 0 ELSE Head(issues).count + SumCounts(Tail(issues))

\* validate_data_quality as it would be if it subtracted the affected rows
\* instead of the number of issue entries
validate_counting_rows(df, data_type) ==
    LET issues == MissingIssues(df, RequiredFields(data_type))
                  \o NonNumericIssues(df, NumericFields(data_type))
                  \o InvalidDateIssues(df, DateFields(data_type))
        total == Len(df.rows)
        total_issues == SumCounts(issues)
        valid == total - total_issues
    IN [data_type |-> data_type,
        total_records |-> total,
        valid_records |-> valid,
        invalid_records |-> total_issues,
        quality_score |-> IF total > 0 THEN Round2Pct(valid, total) ELSE 0,
        issues |-> issues]

\* validate_data_quality: the report it returns; quality_score is kept in
\* hundredths of a percent (8000 is 80.00)
validate_data_quality(df, data_type) ==
    LET issues == MissingIssues(df, RequiredFields(data_type))
                  \o NonNumericIssues(df, NumericFields(data_type))
                  \o InvalidDateIssues(df, DateFields(data_type))
        total == Len(df.rows)
        total_issues == Len(issues)
        valid == total - total_issues
    IN [data_type |-> data_type,
        total_records |-> total,
        valid_records |-> valid,
        invalid_records |-> total_issues,
        quality_score |-> IF total > 0 THEN Round2Pct(valid, total) ELSE 0,
        issues |-> issues]

\* the warning threshold of run_etl_pipeline, in hundredths of a percent
QualityThreshold == 8000

\* -------------------------------------------------------------- environment
\* data_types of run_daily_pipeline, in processing order
DailyDataTypes == <<"drugs", "sales", "patients">>

\* the keys of config['data_sources'] that the pipeline reads
Sources == {"drugs", "sales", "patients"}

\* data_type values a manual request can carry (the last has no transform)
RequestDataTypes == {"drugs", "sales", "patients", "prescriptions"}

NoFile == [exists |-> FALSE, readable |-> FALSE, df |-> [cols |-> {}, rows |-> <<>>]]
Unreadable == [exists |-> TRUE, readable |-> FALSE, df |-> [cols |-> {}, rows |-> <<>>]]
CsvFile(df) == [exists |-> TRUE, readable |-> TRUE, df |-> df]

DrugRow(i, code, mfr, price, expiry) ==
    [idx |-> i,
     v |-> [drug_code |-> code, drug_name |-> "txt", manufacturer |-> mfr,
            unit_price |-> price, stock_quantity |-> "pos", expiry_date |-> expiry]]

DrugCols == {"drug_code", "drug_name", "manufacturer", "unit_price",
             "stock_quantity", "expiry_date"}

\* five drugs, one without manufacturer: one issue in five records
DrugsFive ==
    [cols |-> DrugCols,
     rows |-> << DrugRow(1, "txt", "txt", "pos", "future"),
                 DrugRow(2, "txt", NULL, "pos", "future"),
                 DrugRow(3, "txt", "txt", "pos", "past"),
                 DrugRow(4, "txt", "txt", "pos", "future"),
                 DrugRow(5, "txt", "txt", "pos", "future") >>]

\* three drugs: one without code, one with unparseable price and expiry
DrugsDirty ==
    [cols |-> DrugCols,
     rows |-> << DrugRow(1, "txt", "txt", "pos", "future"),
                 DrugRow(2, NULL, "txt", "pos", "future"),
                 DrugRow(3, "txt", "txt", "bad", "bad") >>]

\* a drugs export under alias names that has no price and no stock column
DrugsNoPrice ==
    [cols |-> {"DrugCode", "DrugName", "MFR"},
     rows |-> << [idx |-> 1, v |-> [DrugCode |-> "txt", DrugName |-> "txt",
                                    MFR |-> "txt"]] >>]

SaleRow(i, tid, day, qty, price) ==
    [idx |-> i,
     v |-> [TransactionID |-> tid, DrugID |-> "pos", SaleDate |-> day,
            Quantity |-> qty, Price |-> price]]

\* three sales under alias names: one zero quantity, one unparseable price
SalesThree ==
    [cols |-> {"TransactionID", "DrugID", "SaleDate", "Quantity", "Price"},
     rows |-> << SaleRow(1, "txt", "past", "pos", "pos"),
                 SaleRow(2, "txt", "past", "zero", "pos"),
                 SaleRow(3, "txt", "past", "pos", "bad") >>]

PatientRow(i, first, dob, email, gender) ==
    [idx |-> i,
     v |-> [first_name |-> first, last_name |-> "txt", date_of_birth |-> dob,
            email |-> email, gender |-> gender]]

PatientCols == {"first_name", "last_name", "date_of_birth", "email", "gender"}

\* two well-formed patients and one without first name
PatientsThree ==
    [cols |-> PatientCols,
     rows |-> << PatientRow(1, "txt", "past", "email", "mf"),
                 PatientRow(2, NULL, "past", "txt", "mf"),
                 PatientRow(3, "txt", "past", NULL, "txt") >>]

\* one patient whose date of birth does not parse
PatientsBadDob ==
    [cols |-> PatientCols,
     rows |-> << PatientRow(1, "txt", "past", "email", "mf"),
                 PatientRow(2, "txt", "bad", "email", "mf") >>]

Files(d, s, p) == [src \in Sources |->
                     CASE src = "drugs" -> d [] src = "sales" -> s [] OTHER -> p]

\* the states of the three source files the runs start from
FileChoices ==
    { Files(CsvFile(DrugsFive), CsvFile(SalesThree), CsvFile(PatientsThree)),
      Files(NoFile, CsvFile(SalesThree), NoFile),
      Files(Unreadable, CsvFile(SalesThree), CsvFile(PatientsBadDob)),
      Files(CsvFile(DrugsDirty), NoFile, CsvFile(PatientsThree)),
      Files(CsvFile(DrugsNoPrice), CsvFile(SalesThree), NoFile),
      Files(NoFile, NoFile, NoFile) }

\* a row left in a table by an earlier load
OldRow == [idx |-> 0, v |-> [legacy |-> "txt"]]

\* -------------------------------------------------------------------- state
VARIABLES
    config,         \* config['processing']: validate_data, backup_raw_data, chunk_size
    files,          \* the source file behind each config['data_sources'] key
    db,             \* target tables: table name -> sequence of rows
    archive,        \* data types of the raw copies written by _archive_raw_data
    stats,          \* self.stats of the one PharmaDataPipeline object
    statsFile,      \* content of reports/pipeline_stats_<day>.json
    clock,          \* number of datetime.now() readings taken for the stats
    requests,       \* requests so far: run_etl_pipeline calls reserved, direct loads
    dailyPc,        \* run_daily_pipeline: "idle", "loop", "summary", "done", "raised"
    dailyIdx,       \* position in DailyDataTypes
    results,        \* results dict of run_daily_pipeline
    etlPc,          \* run_etl_pipeline: position in the try/except/finally
    etlCaller,      \* "daily", "manual" or "none"
    data_type,      \* argument of run_etl_pipeline
    source_file,    \* argument of run_etl_pipeline ("none" for None)
    df_raw,
    df_transformed,
    etlRet,         \* value of the return statement that was executed
    loadPc,         \* load_to_database: "idle", "create", "chunk", "returned"
    loadCaller,     \* "etl", "direct" or "none"
    loadArgs,       \* df, table_name, mode of the running load_to_database call
    loadI,          \* loop variable i of load_to_database
    loadRet,
    run,            \* history of the current run_etl_pipeline call
    load,           \* history of the current load_to_database call
    batch,          \* history of the current run_daily_pipeline call
    recPc,          \* a transform / validate call on its own: "input",
                    \* "transformed", "raised", "validated"
    recType,        \* the entity type of that call
    recIn,          \* the record set given to the transform
    recOut,         \* the record set the transform returned
    recReport,      \* the report validate_data_quality returned
    store,          \* committed rows of the drugs, sales, patients tables as
                    \* the ORM models see them: table -> (id -> row)
    session,        \* the same tables as db.session sees them inside its
                    \* transaction (flushed, not yet committed changes)
    calls,          \* monitor calls made so far
    fixPc,          \* fix_data_issues: "idle", "stock", "orphans", "future",
                    \* "commit", "returned", "raised"
    fixes_applied,  \* the list fix_data_issues builds
    fixRet,         \* the dict fix_data_issues returns
    fix,            \* history of the current fix_data_issues call
    auditPc,        \* run_comprehensive_quality_check: "idle", "returned", "raised"
    auditRet,       \* the report it returns
    running,        \* PipelineScheduler.running
    registered,     \* setup_schedule() calls so far: each registers the three jobs
    due,            \* registered jobs whose next run time has passed
    ticks,          \* moments at which a job came due so far
    starts,         \* start() calls so far
    mainPc,         \* the thread that calls start(): "idle", "etl", "in_etl",
                    \* "quality", "in_quality", "spawn"
    loops,          \* the _scheduler_loop threads: pc and the runnable jobs of
                    \* the current run_pending()
    active,         \* job functions that are executing: thread and job
    scorePc,        \* the scoring arithmetic on its own: "idle", "graded",
                    \* "scored"
    scoreIn,        \* the score or the check results it is given
    scoreOut,       \* the quality_score dict it yields
    reqs,           \* the create_sale requests being handled: position, JSON
                    \* data, the Drug object in the request's session, status
    stock0,         \* stock_quantity of the drug before the requests
    rqcPc,          \* PipelineScheduler.run_quality_check: "idle", "fix",
                    \* "except", "returned"
    rqcRet,         \* what it returns: the report or the failure dict
    rqc             \* history of the current run_quality_check call

vars == << config, files, db, archive, stats, statsFile, clock, requests,
           dailyPc, dailyIdx, results, etlPc, etlCaller, data_type,
           source_file, df_raw, df_transformed, etlRet, loadPc, loadCaller,
           loadArgs, loadI, loadRet, run, load, batch,
           recPc, recType, recIn, recOut, recReport,
           store, session, calls, fixPc, fixes_applied, fixRet, fix,
           auditPc, auditRet,
           running, registered, due, ticks, starts, mainPc, loops, active,
           scorePc, scoreIn, scoreOut, reqs, stock0, rqcPc, rqcRet, rqc >>

schedVars == << running, registered, due, ticks, starts, mainPc, loops, active >>
monVars == << store, session, calls, fixPc, fixes_applied, fixRet, fix,
              auditPc, auditRet >>

recVars == << recPc, recType, recIn, recOut, recReport >>
scoreVars == << scorePc, scoreIn, scoreOut >>
salesVars == << reqs, stock0 >>
checkVars == << rqcPc, rqcRet, rqc >>
otherVars == << scoreVars, salesVars, checkVars >>
pipelineVars == << db, archive, stats, statsFile, clock, requests, dailyPc,
                   dailyIdx, results, etlPc, etlCaller, data_type,
                   source_file, df_raw, df_transformed, etlRet, loadPc,
                   loadCaller, loadArgs, loadI, loadRet, run, load, batch >>
envVars == << config, files, recVars, monVars, schedVars, otherVars >>
coreVars == << config, files, pipelineVars, recVars, monVars, schedVars >>
dailyVars == << dailyPc, dailyIdx, results, batch >>
etlVars == << etlPc, etlCaller, data_type, source_file, df_raw,
              df_transformed, etlRet, run >>
loadVars == << loadPc, loadCaller, loadArgs, loadI, loadRet, load >>

EmptyDf == [cols |-> {}, rows |-> <<>>]

\* results = {}
EmptyDict == [k \in {} |-> ""]

\* self.stats as set by __init__; 0 stands for None and duration_seconds -1
\* for the key that _save_pipeline_stats adds later
InitStats ==
    [files_processed |-> 0, records_processed |-> 0, errors |-> 0,
     warnings |-> 0, start_time |-> 0, end_time |-> 0, duration_seconds |-> -1]

NoRun ==
    [stages |-> <<>>, saves |-> 0, entry |-> InitStats, fresh |-> InitStats,
     raisedIn |-> "none", validated |-> FALSE, score |-> 0,
     loadFailed |-> FALSE]

NoLoad == [writes |-> <<>>, failedChunk |-> 0, before |-> <<>>]

NoBatch == [calls |-> [s \in Sources |-> 0]]

NoArgs == [df |-> EmptyDf, table_name |-> "none", mode |-> "none"]

\* ---------------------------------------------------------- canonical store
\* date.today(), as a day number
Today == 100

\* SQL NULL / Python None in a numeric or date column of the store
None == -1000000

\* the SQL comparisons of the monitor's filters: a NULL operand selects nothing
Lt(a, b) == a # None /\ b # None /\ a < b
Le(a, b) == a # None /\ b # None /\ a <= b
Gt(a, b) == a # None /\ b # None /\ a > b
Ge(a, b) == a # None /\ b # None /\ a >= b

\* Python values of mixed type held in one dict or list
PyInt(n) == [type |-> "int", int |-> n, str |-> ""]
PyStr(t) == [type |-> "str", int |-> 0, str |-> t]
PyDate(d) == [type |-> "date", int |-> d, str |-> ""]

\* a row of the drugs table (class Drug); last_updated is 0 until an UPDATE
\* stamps it through onupdate
Drug(stock, price, expiry, mfr) ==
    [drug_code |-> "txt", drug_name |-> "txt", manufacturer |-> mfr,
     unit_price |-> price, stock_quantity |-> stock, expiry_date |-> expiry,
     last_updated |-> 0]

\* a row of the sales table (class Sale)
Sale(drug_id, day, qty, discount) ==
    [transaction_id |-> "txt", drug_id |-> drug_id, sale_date |-> day,
     quantity |-> qty, unit_price |-> 5, discount |-> discount,
     total_amount |-> 5 * qty - discount]

\* a row of the patients table (class Patient)
Patient(dob, age, created) ==
    [first_name |-> "txt", last_name |-> "txt", date_of_birth |-> dob,
     age |-> age, created_at |-> created]

EmptyTable == [i \in {} |-> 0]
EmptyStore == [drugs |-> EmptyTable, sales |-> EmptyTable, patients |-> EmptyTable]

\* the ids of a set in the order the loops below visit them
Ascending(ids) ==
    [k \in 1..Cardinality(ids) |->
       CHOOSE i \in ids : Cardinality({j \in ids : j <= i}) = k]

\* Drug.query.filter(Drug.stock_quantity < 0)
NegativeStock(st) ==
    {i \in DOMAIN st.drugs : Lt(st.drugs[i].stock_quantity, 0)}

\* the same filter without the negation
OrphanedSalesNoNot(st) ==
    {i \in DOMAIN st.sales : st.sales[i].drug_id \in DOMAIN st.drugs}

\* db.session.query(Sale).filter(~Sale.drug_id.in_(db.session.query(Drug.id)))
OrphanedSales(st) ==
    {i \in DOMAIN st.sales : st.sales[i].drug_id \notin DOMAIN st.drugs}

\* Sale.query.filter(Sale.sale_date > date.today())
FutureSales(st) ==
    {i \in DOMAIN st.sales : Gt(st.sales[i].sale_date, Today)}

\* Drug.query.filter(Drug.expiry_date < date.today(), Drug.stock_quantity > 0)
ExpiredInStock(st) ==
    {i \in DOMAIN st.drugs : /\ Lt(st.drugs[i].expiry_date, Today)
                             /\ Gt(st.drugs[i].stock_quantity, 0)}

\* -------------------------------------------------------- quality audits
\* check_completeness(table_name) for the three tables the audit asks for
check_completeness(st, table_name) ==
    LET rows == st[table_name]
        complete ==
          CASE table_name = "drugs" ->
                 {i \in DOMAIN rows : /\ rows[i].drug_code # NULL
                                      /\ rows[i].drug_name # NULL
                                      /\ rows[i].manufacturer # NULL
                                      /\ rows[i].unit_price # None}
            [] table_name = "sales" ->
                 {i \in DOMAIN rows : /\ rows[i].transaction_id # NULL
                                      /\ rows[i].drug_id # None
                                      /\ rows[i].sale_date # None
                                      /\ rows[i].total_amount # None}
            [] OTHER ->
                 {i \in DOMAIN rows : /\ rows[i].first_name # NULL
                                      /\ rows[i].last_name # NULL
                                      /\ rows[i].date_of_birth # None}
        total == Cardinality(DOMAIN rows)
    IN [table |-> table_name,
        total_records |-> total,
        complete_records |-> Cardinality(complete),
        completeness_rate |-> IF total > 0
                              THEN Round2Pct(Cardinality(complete), total)
                              ELSE 0]

\* the keys of the dict check_consistency returns, in insertion order
ConsistencyKeys ==
    <<"orphaned_sales", "negative_stock", "future_sales",
      "expired_drugs_in_stock", "timestamp">>

\* check_consistency: four counts and the ISO text of datetime.now()
check_consistency(st) ==
    [orphaned_sales |-> PyInt(Cardinality(OrphanedSales(st))),
     negative_stock |-> PyInt(Cardinality(NegativeStock(st))),
     future_sales |-> PyInt(Cardinality(FutureSales(st))),
     expired_drugs_in_stock |-> PyInt(Cardinality(ExpiredInStock(st))),
     timestamp |-> PyStr("iso")]

\* one entry of the issues list of check_accuracy, or nothing when no row
\* violates the rule; the example is the first violating row
AccuracyIssue(rule, violating) ==
    IF violating = {} THEN <<>>
    ELSE <<[rule |-> rule, violations |-> Cardinality(violating),
            example |-> Ascending(violating)[1]]>>

\* check_accuracy: the four business rules, in the order the code tests them
check_accuracy(st) ==
    LET issues ==
          AccuracyIssue("Unit price must be positive",
              {i \in DOMAIN st.drugs : Le(st.drugs[i].unit_price, 0)})
          \o AccuracyIssue("Sale quantity must be positive",
              {i \in DOMAIN st.sales : Le(st.sales[i].quantity, 0)})
          \o AccuracyIssue("Patient age must be between 0 and 120",
              {i \in DOMAIN st.patients : \/ Lt(st.patients[i].age, 0)
                                          \/ Gt(st.patients[i].age, 120)})
          \o AccuracyIssue("Discount cannot exceed sale amount",
              {i \in DOMAIN st.sales :
                 /\ st.sales[i].unit_price # None
                 /\ st.sales[i].quantity # None
                 /\ Gt(st.sales[i].discount,
                       st.sales[i].unit_price * st.sales[i].quantity)})
    IN [total_issues |-> Len(issues), issues |-> issues]

\* check_timeliness: the latest sale date, its distance from today and the
\* rows of the last seven days
check_timeliness(st) ==
    LET dates == {st.sales[i].sale_date : i \in DOMAIN st.sales}
        last_sale_date ==
          IF dates = {} THEN None
          ELSE CHOOSE d \in dates : \A e \in dates : e <= d
        week_ago == Today - 7
    IN [last_sale_date |-> last_sale_date,
        days_since_last_sale |-> IF last_sale_date # None
                                 THEN Today - last_sale_date ELSE None,
        recent_sales_7_days |->
            Cardinality({i \in DOMAIN st.sales :
                           Ge(st.sales[i].sale_date, week_ago)}),
        recent_patients_7_days |->
            Cardinality({i \in DOMAIN st.patients :
                           Ge(st.patients[i].created_at, week_ago)})]

\* sum(values) of Python: adding an int and a str raises TypeError
RECURSIVE PySum(_)
PySum(values) ==
    IF values = <<>> THEN [raised |-> FALSE, value |-> 0]
    ELSE LET n == Len(values)
             rest == PySum(SubSeq(values, 1, n - 1))
         IN IF rest.raised \/ values[n].type # "int"
            THEN [raised |-> TRUE, value |-> 0]
            ELSE [raised |-> FALSE, value |-> rest.value + values[n].int]

Max(a, b) == IF a > b THEN a ELSE b

\* the grade mapping with strict comparisons
get_quality_grade_strict(n, d) ==
    IF n > 90 * d THEN "A"
    ELSE IF n > 80 * d THEN "B"
    ELSE IF n > 70 * d THEN "C"
    ELSE IF n > 60 * d THEN "D"
    ELSE "F"

\* _get_quality_grade(score) for the score n / d
get_quality_grade(n, d) ==
    IF n >= 90 * d THEN "A"
    ELSE IF n >= 80 * d THEN "B"
    ELSE IF n >= 70 * d THEN "C"
    ELSE IF n >= 60 * d THEN "D"
    ELSE "F"

\* consistency_score, accuracy_score and timeliness_score of
\* run_comprehensive_quality_check
ConsistencyScore(total_consistency_issues) ==
    IF total_consistency_issues > 0
    THEN Max(0, 100 - total_consistency_issues * 10) ELSE 100

AccuracyScore(accuracy_issues) ==
    IF accuracy_issues > 0 THEN Max(0, 100 - accuracy_issues * 5) ELSE 100

TimelinessScore(days_since_sale) ==
    IF days_since_sale # None /\ days_since_sale > 7
    THEN Max(0, 100 - (days_since_sale - 7) * 5) ELSE 100

\* report['checks'] of run_comprehensive_quality_check
AuditChecks(st) ==
    [completeness_drugs |-> check_completeness(st, "drugs"),
     completeness_sales |-> check_completeness(st, "sales"),
     completeness_patients |-> check_completeness(st, "patients"),
     consistency |-> check_consistency(st),
     accuracy |-> check_accuracy(st),
     timeliness |-> check_timeliness(st)]

\* report['quality_score'] from the checks and the consistency total. The
\* three completeness rates are in hundredths of a percent; the overall
\* score is the exact fraction overall3000 / 3000 percent, and the stored
\* completeness and overall values are rounded to hundredths
QualityScore(checks, total_consistency_issues) ==
    LET rates == checks.completeness_drugs.completeness_rate
                 + checks.completeness_sales.completeness_rate
                 + checks.completeness_patients.completeness_rate
        consistency_score == ConsistencyScore(total_consistency_issues)
        accuracy_score == AccuracyScore(checks.accuracy.total_issues)
        timeliness_score == TimelinessScore(checks.timeliness.days_since_last_sale)
        overall3000 == 4 * rates + 900 * consistency_score
                       + 600 * accuracy_score + 300 * timeliness_score
    IN [completeness |-> (2 * rates + 3) \div 6,
        consistency |-> consistency_score,
        accuracy |-> accuracy_score,
        timeliness |-> timeliness_score,
        overall |-> (2 * overall3000 + 30) \div 60,
        grade |-> get_quality_grade(overall3000, 3000)]

\* error: the exception a call that produced no report ended with
NoAudit ==
    [error |-> "none",
     checks |-> AuditChecks(EmptyStore),
     quality_score |-> [completeness |-> 0, consistency |-> 0, accuracy |-> 0,
                        timeliness |-> 0, overall |-> 0, grade |-> "none"]]

\* run_comprehensive_quality_check up to the call of _save_quality_report:
\* sum(consistency_issues.values()) adds the timestamp text to the counts
run_comprehensive_quality_check(st) ==
    LET checks == AuditChecks(st)
        total == PySum([k \in 1..Len(ConsistencyKeys) |->
                          checks.consistency[ConsistencyKeys[k]]])
    IN IF total.raised
       THEN [raised |-> TRUE, report |-> NoAudit]
       ELSE [raised |-> FALSE,
             report |-> [error |-> "none",
                         checks |-> checks,
                         quality_score |-> QualityScore(checks, total.value)]]

\* no monitor call is running
NoFix == [before |-> EmptyStore, commit |-> "none"]
NoFixRet == [fixes_applied |-> 0, details |-> <<>>]

MonIdle ==
    /\ calls = 0
    /\ fixPc = "idle"
    /\ fixes_applied = <<>>
    /\ fixRet = NoFixRet
    /\ fix = NoFix
    /\ auditPc = "idle"
    /\ auditRet = NoAudit

\* the PipelineScheduler after __init__: nothing registered, no thread
SchedIdle ==
    /\ running = FALSE
    /\ registered = 0
    /\ due = {}
    /\ ticks = 0
    /\ starts = 0
    /\ mainPc = "idle"
    /\ loops = [t \in 1..MaxStarts |-> [pc |-> "none", todo |-> <<>>]]
    /\ active = {}

NoReport ==
    [data_type |-> "none", total_records |-> 0, valid_records |-> 0,
     invalid_records |-> 0, quality_score |-> 0, issues |-> <<>>]

\* no transform is being exercised on its own
RecIdle ==
    /\ recPc = "idle"
    /\ recType = "none"
    /\ recIn = EmptyDf
    /\ recOut = EmptyDf
    /\ recReport = NoReport

\* no score is being computed on its own
NoScore == NoAudit.quality_score
NoScoreIn ==
    [score |-> 0, rates |-> <<0, 0, 0>>, total |-> 0, accuracy |-> 0,
     days |-> None]

ScoreIdle ==
    /\ scorePc = "idle"
    /\ scoreIn = NoScoreIn
    /\ scoreOut = NoScore

\* no create_sale request has arrived
NoReq == [pc |-> "idle", drug_id |-> 0, quantity |-> 0, stock_quantity |-> 0,
          status |-> 0]

SalesIdle ==
    /\ reqs = [r \in 1..MaxRequests |-> NoReq]
    /\ stock0 = 0

\* no run_quality_check call is running
NoCheckRet == [status |-> "none", report |-> NoAudit]
NoCheck == [before |-> EmptyStore, audit |-> "none", score |-> 0,
            fixInvoked |-> FALSE]

CheckIdle ==
    /\ rqcPc = "idle"
    /\ rqcRet = NoCheckRet
    /\ rqc = NoCheck

OtherIdle ==
    /\ ScoreIdle
    /\ SalesIdle
    /\ CheckIdle

\* the pipeline object after construction, with no call in progress
PipelineIdle ==
    /\ db = [t \in RequestDataTypes |-> <<OldRow>>]
    /\ archive = <<>>
    /\ stats = InitStats
    /\ statsFile = InitStats
    /\ clock = 0
    /\ requests = [runs |-> 0, loads |-> 0]
    /\ dailyPc = "idle"
    /\ dailyIdx = 1
    /\ results = EmptyDict
    /\ etlPc = "idle"
    /\ etlCaller = "none"
    /\ data_type = "none"
    /\ source_file = "none"
    /\ df_raw = EmptyDf
    /\ df_transformed = EmptyDf
    /\ etlRet = FALSE
    /\ loadPc = "idle"
    /\ loadCaller = "none"
    /\ loadArgs = NoArgs
    /\ loadI = 0
    /\ loadRet = FALSE
    /\ run = NoRun
    /\ load = NoLoad
    /\ batch = NoBatch

Init ==
    /\ config \in [validate_data : BOOLEAN, backup_raw_data : BOOLEAN,
                   chunk_size : 1..MaxChunk]
    /\ files \in FileChoices
    /\ PipelineIdle
    /\ RecIdle
    /\ MonIdle
    /\ store = EmptyStore
    /\ session = store
    /\ SchedIdle
    /\ OtherIdle

\* ------------------------------------------------------- statistics updates
\* self.stats['start_time'] = datetime.now()
SetStart(st, t) == [st EXCEPT !.start_time = t]

\* self.stats['records_processed'] = len(df_raw)
SetRecords(st, n) == [st EXCEPT !.records_processed = n]

\* self.stats['warnings'] += 1
IncWarnings(st) == [st EXCEPT !.warnings = @ + 1]

\* self.stats['files_processed'] += 1
IncFiles(st) == [st EXCEPT !.files_processed = @ + 1]

\* self.stats['errors'] += 1
IncErrors(st) == [st EXCEPT !.errors = @ + 1]

\* self.stats['end_time'] = datetime.now(), then the duration that
\* _save_pipeline_stats derives when both times are set
SetEnd(st, t) ==
    [st EXCEPT !.end_time = t,
               !.duration_seconds = IF st.start_time # 0 THEN t - st.start_time ELSE @]

\* ------------------------------------------------------- run_etl_pipeline
\* variant: the statistics are saved on the success path only
EtlExitSavesOnSuccess(ok) == IF ok THEN "finally" ELSE "returned"

\* where control goes when the try block is left, by return or by an
\* exception handled in the except clause: always through finally
EtlExit(ok) == "finally"

\* the except clause: count the error, return False, go through finally
ExceptClause(stage) ==
    /\ stats' = IncErrors(stats)
    /\ run' = [run EXCEPT !.fresh = IncErrors(@),
                          !.raisedIn = stage,
                          !.stages = Append(@, stage)]
    /\ etlRet' = FALSE
    /\ etlPc' = EtlExit(FALSE)

\* entry of run_etl_pipeline(dt, src): the statements before the try
EtlCall(dt, src, caller) ==
    /\ etlPc' = "extract"
    /\ etlCaller' = caller
    /\ data_type' = dt
    /\ source_file' = src
    /\ df_raw' = EmptyDf
    /\ df_transformed' = EmptyDf
    /\ etlRet' = FALSE
    /\ clock' = clock + 1
    /\ stats' = SetStart(stats, clock + 1)
    /\ run' = [NoRun EXCEPT !.entry = stats,
                            !.fresh = SetStart(InitStats, clock + 1)]

\* the path extract_data('csv', file_path) reads: the given one, else the
\* drugs source of the configuration
ExtractPath(src) == IF src # "none" THEN src ELSE "drugs"

\* Extract, and records_processed = len(df_raw)
EtlExtract ==
    /\ etlPc = "extract"
    /\ LET f == files[ExtractPath(source_file)]
       IN IF f.exists /\ f.readable
          THEN /\ df_raw' = f.df
               /\ stats' = SetRecords(stats, Len(f.df.rows))
               /\ run' = [run EXCEPT !.fresh = SetRecords(@, Len(f.df.rows)),
                                     !.stages = Append(@, "extract")]
               /\ etlPc' = "transform"
               /\ UNCHANGED etlRet
          ELSE /\ ExceptClause("extract")
               /\ UNCHANGED df_raw
    /\ UNCHANGED << envVars, db, archive, statsFile, clock, requests, dailyVars,
                    etlCaller, data_type, source_file, df_transformed, loadVars >>

\* Transform, dispatched on data_type
EtlTransform ==
    /\ etlPc = "transform"
    /\ LET r == Transform(data_type, df_raw)
       IN IF ~r.raised
          THEN /\ df_transformed' = r.df
               /\ run' = [run EXCEPT !.stages = Append(@, "transform")]
               /\ etlPc' = IF config.validate_data THEN "validate" ELSE "load"
               /\ UNCHANGED << stats, etlRet >>
          ELSE /\ ExceptClause("transform")
               /\ UNCHANGED df_transformed
    /\ UNCHANGED << envVars, db, archive, statsFile, clock, requests, dailyVars,
                    etlCaller, data_type, source_file, df_raw, loadVars >>

\* variant: a score of exactly 80 counts as low
LowQualityInclusive(report) == report.quality_score <= QualityThreshold

\* quality_report['quality_score'] < 80
LowQuality(report) == report.quality_score < QualityThreshold

\* Validate: the report is computed and written; a low score is a warning
EtlValidate ==
    /\ etlPc = "validate"
    /\ LET report == validate_data_quality(df_transformed, data_type)
       IN \/ /\ stats' = IF LowQuality(report) THEN IncWarnings(stats) ELSE stats
             /\ run' = [run EXCEPT
                          !.fresh = IF LowQuality(report) THEN IncWarnings(@) ELSE @,
                          !.validated = TRUE,
                          !.score = report.quality_score,
                          !.stages = Append(@, "validate")]
             /\ etlPc' = "load"
             /\ UNCHANGED etlRet
          \* the report file cannot be written
          \/ ExceptClause("validate")
    /\ UNCHANGED << envVars, db, archive, statsFile, clock, requests, dailyVars,
                    etlCaller, data_type, source_file, df_raw, df_transformed,
                    loadVars >>

\* ------------------------------------------------------- load_to_database
Min(a, b) == IF a < b THEN a ELSE b

\* variant: the slice stops one row short of the end of the record set
ChunkOfShort(rows, i, chunksize) ==
    SubSeq(rows, i + 1, Min(i + chunksize, Len(rows) - 1))

\* chunk = df.iloc[i : i + chunksize]
ChunkOf(rows, i, chunksize) == SubSeq(rows, i + 1, Min(i + chunksize, Len(rows)))

\* the next value of range(0, len(df), chunksize) after i
NextIndex(i, chunksize) == i + chunksize

\* the table after a successful to_sql(..., if_exists=mode) of the rows
ToSql(table, rows, mode) == IF mode = "append" THEN table \o rows ELSE rows

\* the table after a to_sql that raised: an append leaves it as it was; a
\* replace has either been undone or has already dropped the old rows
AfterFailedToSql(table, mode) ==
    IF mode = "append" THEN {table} ELSE {table, <<>>}

\* entry of load_to_database(df, table_name, mode)
LoadCall(df, table_name, mode, caller) ==
    /\ loadPc' = "create"
    /\ loadCaller' = caller
    /\ loadArgs' = [df |-> df, table_name |-> table_name, mode |-> mode]
    /\ loadI' = 0
    /\ loadRet' = FALSE
    /\ load' = [NoLoad EXCEPT !.before = db[table_name]]

\* df.head(0).to_sql(table_name, ..., if_exists='replace')
LoadCreate ==
    /\ loadPc = "create"
    /\ \/ /\ db' = [db EXCEPT ![loadArgs.table_name] = ToSql(@, <<>>, "replace")]
          /\ loadPc' = "chunk"
          /\ UNCHANGED loadRet
       \/ /\ \E t \in AfterFailedToSql(db[loadArgs.table_name], "replace") :
                db' = [db EXCEPT ![loadArgs.table_name] = t]
          /\ loadPc' = "returned"
          /\ loadRet' = FALSE
    /\ UNCHANGED << envVars, archive, stats, statsFile, clock, requests,
                    dailyVars, etlVars, loadCaller, loadArgs, loadI, load >>

\* one iteration of the chunk loop: the write succeeds or raises
LoadChunk ==
    /\ loadPc = "chunk"
    /\ loadI < Len(loadArgs.df.rows)
    /\ LET chunk == ChunkOf(loadArgs.df.rows, loadI, config.chunk_size)
           t == loadArgs.table_name
       IN \/ /\ db' = [db EXCEPT ![t] = ToSql(@, chunk, loadArgs.mode)]
             /\ load' = [load EXCEPT !.writes = Append(@, chunk)]
             /\ loadI' = NextIndex(loadI, config.chunk_size)
             /\ UNCHANGED << loadPc, loadRet >>
          \/ /\ \E tbl \in AfterFailedToSql(db[t], loadArgs.mode) :
                   db' = [db EXCEPT ![t] = tbl]
             /\ load' = [load EXCEPT
                           !.failedChunk = loadI \div config.chunk_size + 1]
             /\ loadPc' = "returned"
             /\ loadRet' = FALSE
             /\ UNCHANGED loadI
    /\ UNCHANGED << envVars, archive, stats, statsFile, clock, requests,
                    dailyVars, etlVars, loadCaller, loadArgs >>

\* the loop is exhausted: return True
LoadFinish ==
    /\ loadPc = "chunk"
    /\ loadI >= Len(loadArgs.df.rows)
    /\ loadPc' = "returned"
    /\ loadRet' = TRUE
    /\ UNCHANGED << envVars, db, archive, stats, statsFile, clock, requests,
                    dailyVars, etlVars, loadCaller, loadArgs, loadI, load >>

\* ------------------------------------------- run_etl_pipeline, continued
\* success = self.load_to_database(df_transformed, data_type)
EtlLoad ==
    /\ etlPc = "load"
    /\ etlPc' = "loading"
    /\ run' = [run EXCEPT !.stages = Append(@, "load")]
    /\ LoadCall(df_transformed, data_type, "append", "etl")
    /\ UNCHANGED << envVars, db, archive, stats, statsFile, clock, requests,
                    dailyVars, etlCaller, data_type, source_file, df_raw,
                    df_transformed, etlRet >>

\* variant: the archive stage does not look at the result of the load
ArchiveDueAlways(success) == config.backup_raw_data

\* if success: if backup_raw_data: the archive stage is due
ArchiveDue(success) == success /\ config.backup_raw_data

\* the statements after load_to_database returned, up to the archive call
EtlLoadReturn ==
    /\ etlPc = "loading"
    /\ loadPc = "returned"
    /\ loadCaller = "etl"
    /\ loadPc' = "idle"
    /\ loadCaller' = "none"
    /\ loadArgs' = NoArgs
    /\ loadI' = 0
    /\ run' = [(IF ArchiveDue(loadRet) \/ ~loadRet THEN run
                ELSE [run EXCEPT !.fresh = IncFiles(@)])
               EXCEPT !.loadFailed = ~loadRet]
    /\ IF ArchiveDue(loadRet)
       THEN /\ etlPc' = "archive"
            /\ UNCHANGED << stats, etlRet >>
       ELSE /\ stats' = IF loadRet THEN IncFiles(stats) ELSE stats
            /\ etlRet' = loadRet
            /\ etlPc' = EtlExit(loadRet)
    /\ UNCHANGED << envVars, db, archive, statsFile, clock, requests, dailyVars,
                    etlCaller, data_type, source_file, df_raw, df_transformed,
                    loadRet, load >>

\* _archive_raw_data(df_raw, data_type), then files_processed += 1 and
\* return success; an exception of the archive write reaches the except
EtlArchive ==
    /\ etlPc = "archive"
    /\ \/ /\ archive' = Append(archive, data_type)
          /\ stats' = IncFiles(stats)
          /\ run' = [run EXCEPT !.fresh = IncFiles(@),
                                !.stages = Append(@, "archive")]
          /\ etlRet' = TRUE
          /\ etlPc' = EtlExit(TRUE)
       \/ /\ ExceptClause("archive")
          /\ UNCHANGED archive
    /\ UNCHANGED << envVars, db, statsFile, clock, requests, dailyVars,
                    etlCaller, data_type, source_file, df_raw, df_transformed,
                    loadVars >>

\* finally: end_time = now and _save_pipeline_stats(), whose file write may
\* raise; the exception then replaces the pending return
EtlFinally ==
    /\ etlPc = "finally"
    /\ clock' = clock + 1
    /\ stats' = SetEnd(stats, clock + 1)
    /\ run' = [run EXCEPT !.fresh = SetEnd(@, clock + 1), !.saves = @ + 1]
    /\ \/ /\ statsFile' = stats'
          /\ etlPc' = "returned"
       \/ /\ etlPc' = "raised"
          /\ UNCHANGED statsFile
    /\ UNCHANGED << envVars, db, archive, requests, dailyVars, etlCaller,
                    data_type, source_file, df_raw, df_transformed, etlRet,
                    loadVars >>

\* ------------------------------------------------------------------ callers
AllIdle == dailyPc = "idle" /\ etlPc = "idle" /\ loadPc = "idle"

\* the frame of run_etl_pipeline is gone once its caller has the result
EtlLeave ==
    /\ etlPc' = "idle"
    /\ etlCaller' = "none"
    /\ data_type' = "none"
    /\ source_file' = "none"
    /\ df_raw' = EmptyDf
    /\ df_transformed' = EmptyDf
    /\ etlRet' = FALSE
    /\ run' = NoRun

\* the frame of load_to_database is gone once its caller has the result
LoadLeave ==
    /\ loadPc' = "idle"
    /\ loadCaller' = "none"
    /\ loadArgs' = NoArgs
    /\ loadI' = 0
    /\ loadRet' = FALSE
    /\ load' = NoLoad

\* run_pipeline with a data_type in the payload:
\* pipeline.run_etl_pipeline(data_type), no source file given
ManualRun(dt) ==
    /\ AllIdle
    /\ requests.runs + 1 <= MaxRuns
    /\ requests' = [requests EXCEPT !.runs = @ + 1]
    /\ EtlCall(dt, "none", "manual")
    /\ UNCHANGED << envVars, db, archive, statsFile, dailyVars, loadVars >>

\* the request handler takes the result, or catches the exception
ManualReturn ==
    /\ etlCaller = "manual"
    /\ etlPc \in {"returned", "raised"}
    /\ EtlLeave
    /\ UNCHANGED << envVars, db, archive, stats, statsFile, clock, requests,
                    dailyVars, loadVars >>

\* entry of run_daily_pipeline: results = {}
DailyStart ==
    /\ AllIdle
    /\ requests.runs + Len(DailyDataTypes) <= MaxRuns
    /\ requests' = [requests EXCEPT !.runs = @ + Len(DailyDataTypes)]
    /\ dailyPc' = "loop"
    /\ dailyIdx' = 1
    /\ results' = EmptyDict
    /\ batch' = NoBatch
    /\ UNCHANGED << envVars, db, archive, stats, statsFile, clock, etlVars,
                    loadVars >>

\* variant: the existence of the source file is not checked
SourcePresentAlways(src) == TRUE

\* source_file and os.path.exists(source_file)
SourcePresent(src) == files[src].exists

\* results[data_type] = value
SetResult(res, dt, value) ==
    [k \in DOMAIN res \cup {dt} |-> IF k = dt THEN value ELSE res[k]]

\* 'Success' if success else 'Failed'
Outcome(success) == IF success THEN "Success" ELSE "Failed"

\* variant: a failed entity ends the loop
DailyAfterRunBreaks(idx, success) ==
    IF success THEN idx + 1 ELSE Len(DailyDataTypes) + 1

\* the loop index after the run of one entity returned
DailyAfterRun(idx, success) == idx + 1

\* one iteration of the for loop, up to the run_etl_pipeline call
DailyIter ==
    /\ dailyPc = "loop"
    /\ etlPc = "idle"
    /\ dailyIdx <= Len(DailyDataTypes)
    /\ LET dt == DailyDataTypes[dailyIdx]
       IN IF SourcePresent(dt)
          THEN /\ EtlCall(dt, dt, "daily")
               /\ batch' = [batch EXCEPT !.calls[dt] = @ + 1]
               /\ UNCHANGED << dailyPc, dailyIdx, results >>
          ELSE /\ results' = SetResult(results, dt, "Skipped")
               /\ dailyIdx' = dailyIdx + 1
               /\ UNCHANGED << dailyPc, batch, stats, clock, etlVars >>
    /\ UNCHANGED << envVars, db, archive, statsFile, requests, loadVars >>

\* run_etl_pipeline returned into the loop
DailyEtlReturn ==
    /\ dailyPc = "loop"
    /\ etlCaller = "daily"
    /\ etlPc = "returned"
    /\ results' = SetResult(results, data_type, Outcome(etlRet))
    /\ dailyIdx' = DailyAfterRun(dailyIdx, etlRet)
    /\ EtlLeave
    /\ UNCHANGED << envVars, db, archive, stats, statsFile, clock, requests,
                    dailyPc, batch, loadVars >>

\* the exception of _save_pipeline_stats leaves run_daily_pipeline
DailyEtlRaised ==
    /\ dailyPc = "loop"
    /\ etlCaller = "daily"
    /\ etlPc = "raised"
    /\ dailyPc' = "raised"
    /\ EtlLeave
    /\ UNCHANGED << envVars, db, archive, stats, statsFile, clock, requests,
                    dailyIdx, results, batch, loadVars >>

\* after the loop: the summary file is written and results is returned,
\* or the write raises
DailySummary ==
    /\ dailyPc = "loop"
    /\ etlPc = "idle"
    /\ dailyIdx > Len(DailyDataTypes)
    /\ dailyPc' \in {"done", "raised"}
    /\ UNCHANGED << envVars, db, archive, stats, statsFile, clock, requests,
                    dailyIdx, results, batch, etlVars, loadVars >>

\* the caller of run_daily_pipeline takes the result or the exception
DailyEnd ==
    /\ dailyPc \in {"done", "raised"}
    /\ dailyPc' = "idle"
    /\ UNCHANGED << envVars, db, archive, stats, statsFile, clock, requests,
                    dailyIdx, results, batch, etlVars, loadVars >>

\* record sets handed to a direct load_to_database call
LoadInputs ==
    { [df |-> transform_drugs(DrugsFive).df, table_name |-> "drugs"],
      [df |-> transform_sales(SalesThree).df, table_name |-> "sales"],
      [df |-> [cols |-> PatientCols, rows |-> <<>>], table_name |-> "patients"] }

LoadModes == {"append", "replace"}

\* load_to_database(df, table_name, mode) called on its own
DirectLoad(in, mode) ==
    /\ AllIdle
    /\ requests.loads < MaxLoads
    /\ requests' = [requests EXCEPT !.loads = @ + 1]
    /\ LoadCall(in.df, in.table_name, mode, "direct")
    /\ UNCHANGED << envVars, db, archive, stats, statsFile, clock, dailyVars,
                    etlVars >>

DirectLoadReturn ==
    /\ loadCaller = "direct"
    /\ loadPc = "returned"
    /\ LoadLeave
    /\ UNCHANGED << envVars, db, archive, stats, statsFile, clock, requests,
                    dailyVars, etlVars >>

\* the pipeline as its callers drive it: manual runs and daily batches
Next ==
    \/ \E dt \in RequestDataTypes : ManualRun(dt)
    \/ ManualReturn
    \/ DailyStart
    \/ DailyIter
    \/ DailyEtlReturn
    \/ DailyEtlRaised
    \/ DailySummary
    \/ DailyEnd
    \/ EtlExtract
    \/ EtlTransform
    \/ EtlValidate
    \/ EtlLoad
    \/ EtlLoadReturn
    \/ EtlArchive
    \/ EtlFinally
    \/ LoadCreate
    \/ LoadChunk
    \/ LoadFinish

Spec == Init /\ [][Next]_vars

\* load_to_database on its own, in both modes
InitLoad ==
    /\ Init
    /\ config.validate_data
    /\ config.backup_raw_data
    /\ files = Files(NoFile, NoFile, NoFile)

NextLoad ==
    \/ \E in \in LoadInputs, mode \in LoadModes : DirectLoad(in, mode)
    \/ DirectLoadReturn
    \/ LoadCreate
    \/ LoadChunk
    \/ LoadFinish

SpecLoad == InitLoad /\ [][NextLoad]_vars

\* ------------------------------------- transforms and validator on their own
\* the cells that vary in the rows handed to a transform: every other cell
\* is well formed
DrugCells ==
    {<<code, mfr, price>> : code \in {"txt", NULL}, mfr \in {"txt", NULL},
                            price \in {"pos", "bad"}}
SaleCells ==
    {<<tid, day, qty, price>> : tid \in {"txt", NULL}, day \in {"past", "bad"},
                                qty \in {"pos", "zero"}, price \in {"pos", "bad"}}
PatientCells ==
    {<<first, dob, email>> : first \in {"txt", NULL}, dob \in {"past", "bad"},
                             email \in {"email", "txt", NULL}}

\* the record sets of at most MaxRows rows that carry every column of the
\* entity type (the sales under their alias names)
RecordInputs(dt) ==
    CASE dt = "drugs" ->
           UNION {{[cols |-> DrugCols,
                    rows |-> [i \in 1..n |->
                                DrugRow(i, f[i][1], f[i][2], f[i][3], "future")]]
                   : f \in [1..n -> DrugCells]} : n \in 0..MaxRows}
      [] dt = "sales" ->
           UNION {{[cols |-> {"TransactionID", "DrugID", "SaleDate",
                              "Quantity", "Price"},
                    rows |-> [i \in 1..n |->
                                SaleRow(i, f[i][1], f[i][2], f[i][3], f[i][4])]]
                   : f \in [1..n -> SaleCells]} : n \in 0..MaxRows}
      [] OTHER ->
           UNION {{[cols |-> PatientCols,
                    rows |-> [i \in 1..n |->
                                PatientRow(i, f[i][1], f[i][2], f[i][3], "mf")]]
                   : f \in [1..n -> PatientCells]} : n \in 0..MaxRows}

\* a record set of one entity type is about to be transformed
InitRecords ==
    /\ Init
    /\ config.validate_data
    /\ config.backup_raw_data
    /\ config.chunk_size = 1
    /\ files = Files(NoFile, NoFile, NoFile)

\* the caller picks the entity type and the record set
RecordsGiven ==
    /\ recPc = "idle"
    /\ \E dt \in Sources :
         /\ recType' = dt
         /\ recIn' \in RecordInputs(dt)
    /\ recPc' = "input"
    /\ UNCHANGED << recOut, recReport, config, files, pipelineVars, monVars, schedVars, otherVars >>

\* transform_drugs / transform_sales / transform_patients on that input
ApplyTransform ==
    /\ recPc = "input"
    /\ LET r == Transform(recType, recIn)
       IN IF r.raised
          THEN recPc' = "raised" /\ UNCHANGED recOut
          ELSE recPc' = "transformed" /\ recOut' = r.df
    /\ UNCHANGED << recType, recIn, recReport, config, files, pipelineVars, monVars, schedVars, otherVars >>

\* validate_data_quality on the transformed record set
ApplyValidate ==
    /\ recPc = "transformed"
    /\ recReport' = validate_data_quality(recOut, recType)
    /\ recPc' = "validated"
    /\ UNCHANGED << recType, recIn, recOut, config, files, pipelineVars, monVars, schedVars, otherVars >>

\* validate_data_quality called on the record set as given
ValidateInput ==
    /\ recPc = "input"
    /\ recOut' = recIn
    /\ recReport' = validate_data_quality(recIn, recType)
    /\ recPc' = "validated"
    /\ UNCHANGED << recType, recIn, config, files, pipelineVars, monVars, schedVars, otherVars >>

NextRecords ==
    \/ RecordsGiven
    \/ ApplyTransform
    \/ ApplyValidate
    \/ ValidateInput

SpecRecords == InitRecords /\ [][NextRecords]_vars

\* ------------------------------------------------------ data quality monitor
\* the rows the tables can hold when the monitor is called
DrugChoices ==
    {Drug(stock, 5, Today + 50, "txt") : stock \in {-5, 0, 3}}
    \cup {Drug(stock, 0, Today - 1, NULL) : stock \in {-5, 0, 3}}
SaleChoices ==
    {Sale(drug_id, day, 2, 0) : drug_id \in {1, 9},
                                day \in {Today - 30, Today, Today + 10}}
PatientChoices == {Patient(Today - 9000, 40, Today - 1)}

\* stores that exercise the accuracy rules and the completeness counts
AuditStores ==
    { [drugs |-> <<Drug(3, None, None, "txt")>>,
       sales |-> <<Sale(1, Today - 8, 0, 0), Sale(1, Today - 9, 2, 11)>>,
       patients |-> <<Patient(None, None, Today - 30)>>],
      [drugs |-> <<Drug(3, 5, Today + 50, "txt")>>,
       sales |-> <<Sale(1, Today - 1, 2, 0)>>,
       patients |-> <<Patient(Today - 50000, 130, Today - 1)>>] }

StoreChoices ==
    {[drugs |-> d, sales |-> s, patients |-> p] :
        d \in UNION {[1..n -> DrugChoices] : n \in 0..MaxDrugs},
        s \in UNION {[1..n -> SaleChoices] : n \in 0..MaxSales},
        p \in UNION {[1..n -> PatientChoices] : n \in 0..MaxPatients}}
    \cup AuditStores

\* the monitor is called on a store with no pipeline run in progress
InitMonitor ==
    /\ config = [validate_data |-> TRUE, backup_raw_data |-> TRUE, chunk_size |-> 1]
    /\ files = Files(NoFile, NoFile, NoFile)
    /\ PipelineIdle
    /\ RecIdle
    /\ MonIdle
    /\ store \in StoreChoices
    /\ session = store
    /\ SchedIdle
    /\ OtherIdle

MonitorFree == fixPc = "idle" /\ auditPc = "idle" /\ rqcPc = "idle"

\* fix_data_issues(): fixes_applied = []
FixCall ==
    /\ MonitorFree
    /\ calls < MaxCalls
    /\ calls' = calls + 1
    /\ fixPc' = "stock"
    /\ fixes_applied' = <<>>
    /\ fix' = [before |-> store, commit |-> "none"]
    /\ UNCHANGED << store, session, fixRet, auditPc, auditRet,
                    config, files, recVars, pipelineVars, schedVars, otherVars >>

\* the Fix Record as it would be if old_value were read after the assignment
StockFixReadsAfter(st, id) ==
    [table |-> "drugs", id |-> id, field |-> "stock_quantity",
     old_value |-> PyInt(0), new_value |-> PyInt(0),
     fix_type |-> "Negative to zero"]

\* the Fix Record of a clamped drug
StockFix(st, id) ==
    [table |-> "drugs", id |-> id, field |-> "stock_quantity",
     old_value |-> PyInt(st.drugs[id].stock_quantity), new_value |-> PyInt(0),
     fix_type |-> "Negative to zero"]

\* a fix that guesses a quantity by dropping the sign
ClampStockAbs(drug) ==
    [drug EXCEPT !.stock_quantity = 0 - drug.stock_quantity, !.last_updated = 1]

\* drug.stock_quantity = 0, with the onupdate stamp of Drug.last_updated
ClampStock(drug) == [drug EXCEPT !.stock_quantity = 0, !.last_updated = 1]

\* the loop over negative_stock_drugs
FixNegativeStock ==
    /\ fixPc = "stock"
    /\ LET found == NegativeStock(session)
           order == Ascending(found)
       IN /\ session' = [session EXCEPT !.drugs =
                           [i \in DOMAIN session.drugs |->
                              IF i \in found THEN ClampStock(session.drugs[i])
                              ELSE session.drugs[i]]]
          /\ fixes_applied' = fixes_applied \o
                                [k \in 1..Len(order) |-> StockFix(session, order[k])]
    /\ fixPc' = "orphans"
    /\ UNCHANGED << store, calls, fixRet, fix, auditPc, auditRet,
                    config, files, recVars, pipelineVars, schedVars, otherVars >>

\* the Fix Record of a deleted sale
OrphanFix(id) ==
    [table |-> "sales", id |-> id, field |-> "all",
     old_value |-> PyStr("Exists"), new_value |-> PyStr("Deleted"),
     fix_type |-> "Remove orphaned record"]

\* the loop over orphaned_sales: db.session.delete(sale)
FixOrphans ==
    /\ fixPc = "orphans"
    /\ LET found == OrphanedSales(session)
           order == Ascending(found)
       IN /\ session' = [session EXCEPT !.sales =
                           [i \in DOMAIN session.sales \ found |-> session.sales[i]]]
          /\ fixes_applied' = fixes_applied \o
                                [k \in 1..Len(order) |-> OrphanFix(order[k])]
    /\ fixPc' = "future"
    /\ UNCHANGED << store, calls, fixRet, fix, auditPc, auditRet,
                    config, files, recVars, pipelineVars, schedVars, otherVars >>

\* the Fix Record of a re-dated sale
DateFix(st, id) ==
    [table |-> "sales", id |-> id, field |-> "sale_date",
     old_value |-> PyDate(st.sales[id].sale_date), new_value |-> PyDate(Today),
     fix_type |-> "Future date correction"]

\* the assignment written back to the date it read
RedateKeeps(sale) == sale

\* sale.sale_date = date.today()
Redate(sale) == [sale EXCEPT !.sale_date = Today]

\* the loop over future_sales
FixFutureSales ==
    /\ fixPc = "future"
    /\ LET found == FutureSales(session)
           order == Ascending(found)
       IN /\ session' = [session EXCEPT !.sales =
                           [i \in DOMAIN session.sales |->
                              IF i \in found
                              THEN Redate(session.sales[i])
                              ELSE session.sales[i]]]
          /\ fixes_applied' = fixes_applied \o
                                [k \in 1..Len(order) |-> DateFix(session, order[k])]
    /\ fixPc' = "commit"
    /\ UNCHANGED << store, calls, fixRet, fix, auditPc, auditRet,
                    config, files, recVars, pipelineVars, schedVars, otherVars >>

\* if fixes_applied: db.session.commit(); then the return statement. A
\* commit that fails raises out of fix_data_issues, which has no handler,
\* and the database rolls the transaction back
FixCommit ==
    /\ fixPc = "commit"
    /\ IF fixes_applied = <<>>
       THEN /\ fixPc' = "returned"
            /\ fixRet' = [fixes_applied |-> 0, details |-> <<>>]
            /\ UNCHANGED << store, session, fix >>
       ELSE \/ /\ store' = session
               /\ fix' = [fix EXCEPT !.commit = "ok"]
               /\ fixPc' = "returned"
               /\ fixRet' = [fixes_applied |-> Len(fixes_applied),
                             details |-> fixes_applied]
               /\ UNCHANGED session
            \/ /\ session' = store
               /\ fix' = [fix EXCEPT !.commit = "failed"]
               /\ fixPc' = "raised"
               /\ UNCHANGED << store, fixRet >>
    /\ UNCHANGED << calls, fixes_applied, auditPc, auditRet,
                    config, files, recVars, pipelineVars, schedVars, otherVars >>

\* the caller has the result (or the exception)
FixReturn ==
    /\ fixPc \in {"returned", "raised"}
    /\ rqcPc = "idle"
    /\ fixPc' = "idle"
    /\ fixes_applied' = <<>>
    /\ fixRet' = NoFixRet
    /\ fix' = NoFix
    /\ UNCHANGED << store, session, calls, auditPc, auditRet,
                    config, files, recVars, pipelineVars, schedVars, otherVars >>

\* run_comprehensive_quality_check(); _save_quality_report raises when the
\* report file cannot be written
QualityCheck ==
    /\ MonitorFree
    /\ calls < MaxCalls
    /\ calls' = calls + 1
    /\ LET r == run_comprehensive_quality_check(session)
       IN IF r.raised
          THEN /\ auditPc' = "raised"
               /\ auditRet' = [NoAudit EXCEPT !.error = "TypeError"]
          ELSE \/ auditPc' = "returned" /\ auditRet' = r.report
               \/ /\ auditPc' = "raised"
                  /\ auditRet' = [NoAudit EXCEPT !.error = "OSError"]
    /\ UNCHANGED << store, session, fixPc, fixes_applied, fixRet, fix,
                    config, files, recVars, pipelineVars, schedVars, otherVars >>

QualityCheckReturn ==
    /\ auditPc \in {"returned", "raised"}
    /\ auditPc' = "idle"
    /\ auditRet' = NoAudit
    /\ UNCHANGED << store, session, calls, fixPc, fixes_applied, fixRet, fix,
                    config, files, recVars, pipelineVars, schedVars, otherVars >>

\* ------------------------------------------------------- run_quality_check
rqcRest == << config, files, recVars, pipelineVars, schedVars, scoreVars,
              salesVars, store, session, auditPc, auditRet >>

\* the dict of a handler that swallowed the exception
ExceptResultOk == [status |-> "success", report |-> NoAudit]

\* except Exception as e: return {'status': 'failed', 'error': str(e)}
ExceptResult == [status |-> "failed", report |-> NoAudit]

\* run_quality_check() up to the call of fix_data_issues: the audit, the
\* score of its report and the test score < 70; an audit that raises (in
\* its scoring, or when the report file cannot be written) leads to the
\* except clause
RunQualityCheck ==
    /\ MonitorFree
    /\ calls < MaxCalls
    /\ calls' = calls + 1
    /\ LET r == run_comprehensive_quality_check(session)
           score == r.report.quality_score.overall
           called == [NoCheck EXCEPT !.before = store]
       IN IF r.raised
          THEN /\ rqcPc' = "except"
               /\ rqc' = [called EXCEPT !.audit = "TypeError"]
               /\ UNCHANGED << rqcRet, fixPc, fixes_applied, fix >>
          ELSE \/ /\ score < 70 * 100
                  /\ rqcPc' = "fix"
                  /\ rqcRet' = [status |-> "none", report |-> r.report]
                  /\ rqc' = [called EXCEPT !.audit = "ok", !.score = score,
                                           !.fixInvoked = TRUE]
                  /\ fixPc' = "stock"
                  /\ fixes_applied' = <<>>
                  /\ fix' = [before |-> store, commit |-> "none"]
               \/ /\ score >= 70 * 100
                  /\ rqcPc' = "returned"
                  /\ rqcRet' = [status |-> "report", report |-> r.report]
                  /\ rqc' = [called EXCEPT !.audit = "ok", !.score = score]
                  /\ UNCHANGED << fixPc, fixes_applied, fix >>
               \/ /\ rqcPc' = "except"
                  /\ rqc' = [called EXCEPT !.audit = "OSError"]
                  /\ UNCHANGED << rqcRet, fixPc, fixes_applied, fix >>
    /\ UNCHANGED << fixRet, rqcRest >>

\* the rest of run_quality_check(): return report once fix_data_issues has
\* returned, or the except clause for an exception of the audit or the fix
RunQualityCheckEnd ==
    /\ \/ rqcPc = "except"
       \/ rqcPc = "fix" /\ fixPc \in {"returned", "raised"}
    /\ rqcRet' = IF rqcPc = "fix" /\ fixPc = "returned"
                 THEN [rqcRet EXCEPT !.status = "report"]
                 ELSE ExceptResult
    /\ rqcPc' = "returned"
    /\ fixPc' = "idle"
    /\ fixes_applied' = <<>>
    /\ fixRet' = NoFixRet
    /\ fix' = NoFix
    /\ UNCHANGED << calls, rqc, rqcRest >>

\* the scheduler (or run_once) has the result
RunQualityCheckReturn ==
    /\ rqcPc = "returned"
    /\ rqcPc' = "idle"
    /\ rqcRet' = NoCheckRet
    /\ rqc' = NoCheck
    /\ UNCHANGED << calls, fixPc, fixes_applied, fixRet, fix, rqcRest >>

NextMonitor ==
    \/ RunQualityCheck
    \/ RunQualityCheckEnd
    \/ RunQualityCheckReturn
    \/ FixCall
    \/ FixNegativeStock
    \/ FixOrphans
    \/ FixFutureSales
    \/ FixCommit
    \/ FixReturn
    \/ QualityCheck
    \/ QualityCheckReturn

SpecMonitor == InitMonitor /\ [][NextMonitor]_vars

\* ---------------------------------------------------------------- scheduler
\* the job functions setup_schedule registers, in registration order
JobKinds == <<"etl", "quality", "backup">>

\* the jobs of the default scheduler of the schedule module: setup_schedule
\* appends three more each time it is called
Jobs(n) == {[setup |-> k, job |-> j] : k \in 1..n, j \in 1..Len(JobKinds)}

\* the jobs of a set in the order run_pending runs them
RECURSIVE JobsInOrder(_)
JobsInOrder(js) ==
    IF js = {} THEN <<>>
    ELSE LET first == CHOOSE a \in js :
                        \A b \in js : \/ a.setup < b.setup
                                      \/ a.setup = b.setup /\ a.job <= b.job
         IN <<first>> \o JobsInOrder(js \ {first})

rest == << config, files, pipelineVars, recVars, monVars, otherVars >>

\* start(): self.running = True; self.setup_schedule()
Start ==
    /\ mainPc = "idle"
    /\ starts < MaxStarts
    /\ starts' = starts + 1
    /\ running' = TRUE
    /\ registered' = registered + 1
    /\ mainPc' = "etl"
    /\ UNCHANGED << due, ticks, loops, active, rest >>

\* start() calls self.run_daily_etl(), then self.run_quality_check(), in
\* the calling thread
MainJobBegin ==
    /\ mainPc \in {"etl", "quality"}
    /\ active' = active \cup {[thread |-> 0, job |-> mainPc]}
    /\ mainPc' = IF mainPc = "etl" THEN "in_etl" ELSE "in_quality"
    /\ UNCHANGED << running, registered, due, ticks, starts, loops, rest >>

MainJobEnd ==
    /\ mainPc \in {"in_etl", "in_quality"}
    /\ active' = {a \in active : a.thread # 0}
    /\ mainPc' = IF mainPc = "in_etl" THEN "quality" ELSE "spawn"
    /\ UNCHANGED << running, registered, due, ticks, starts, loops, rest >>

\* threading.Thread(target=self._scheduler_loop, daemon=True).start(); return
SpawnLoop ==
    /\ mainPc = "spawn"
    /\ loops' = [loops EXCEPT ![starts] = [pc |-> "check", todo |-> <<>>]]
    /\ mainPc' = "idle"
    /\ UNCHANGED << running, registered, due, ticks, starts, active, rest >>

\* stop(): self.running = False
Stop ==
    /\ mainPc = "idle"
    /\ running
    /\ running' = FALSE
    /\ UNCHANGED << registered, due, ticks, starts, mainPc, loops, active, rest >>

\* the clock passes the next run time of a registered job
JobComesDue(j) ==
    /\ ticks < MaxTicks
    /\ j \in Jobs(registered) \ due
    /\ due' = due \cup {j}
    /\ ticks' = ticks + 1
    /\ UNCHANGED << running, registered, starts, mainPc, loops, active, rest >>

\* while self.running: schedule.run_pending() collects the runnable jobs
LoopCheck(t) ==
    /\ loops[t].pc = "check"
    /\ loops' = [loops EXCEPT ![t] =
                   IF running THEN [pc |-> "pending", todo |-> JobsInOrder(due)]
                   ELSE [pc |-> "ended", todo |-> <<>>]]
    /\ UNCHANGED << running, registered, due, ticks, starts, mainPc, active, rest >>

\* run_pending calls the job function of the next runnable job
LoopJobBegin(t) ==
    /\ loops[t].pc = "pending"
    /\ loops[t].todo # <<>>
    /\ active' = active \cup {[thread |-> t, job |-> JobKinds[Head(loops[t].todo).job]]}
    /\ loops' = [loops EXCEPT ![t].pc = "job"]
    /\ UNCHANGED << running, registered, due, ticks, starts, mainPc, rest >>

\* the job function returns and the job is scheduled for its next run
LoopJobEnd(t) ==
    /\ loops[t].pc = "job"
    /\ active' = {a \in active : a.thread # t}
    /\ due' = due \ {Head(loops[t].todo)}
    /\ loops' = [loops EXCEPT ![t] = [pc |-> "pending", todo |-> Tail(loops[t].todo)]]
    /\ UNCHANGED << running, registered, ticks, starts, mainPc, rest >>

\* run_pending is through; time.sleep(60)
LoopSleep(t) ==
    /\ loops[t].pc = "pending"
    /\ loops[t].todo = <<>>
    /\ loops' = [loops EXCEPT ![t].pc = "check"]
    /\ UNCHANGED << running, registered, due, ticks, starts, mainPc, active, rest >>

NextSched ==
    \/ Start
    \/ MainJobBegin
    \/ MainJobEnd
    \/ SpawnLoop
    \/ Stop
    \/ \E j \in Jobs(registered) : JobComesDue(j)
    \/ \E t \in 1..MaxStarts : LoopCheck(t)
    \/ \E t \in 1..MaxStarts : LoopJobBegin(t)
    \/ \E t \in 1..MaxStarts : LoopJobEnd(t)
    \/ \E t \in 1..MaxStarts : LoopSleep(t)

InitSched ==
    /\ Init
    /\ files = Files(NoFile, NoFile, NoFile)
    /\ config = [validate_data |-> TRUE, backup_raw_data |-> TRUE, chunk_size |-> 1]

SpecSched == InitSched /\ [][NextSched]_vars

\* ------------------------------------------------- scoring arithmetic alone
\* check results as far as the scoring reads them: the three completeness
\* rates (hundredths of a percent), the accuracy issue count and the days
\* since the last sale
ScoreChecks(in) ==
    [completeness_drugs |-> [completeness_rate |-> in.rates[1]],
     completeness_sales |-> [completeness_rate |-> in.rates[2]],
     completeness_patients |-> [completeness_rate |-> in.rates[3]],
     accuracy |-> [total_issues |-> in.accuracy],
     timeliness |-> [days_since_last_sale |-> in.days]]

RateChoices == {0, 5000, 7500, 9997, 10000}
DayChoices == {None, -3, 0, 7, 8, 17, 27, 28}

\* a score (in hundredths) is given to _get_quality_grade
GradeGiven ==
    /\ scorePc = "idle"
    /\ \E s \in 0..MaxScore :
         /\ scoreIn' = [NoScoreIn EXCEPT !.score = s]
         /\ scoreOut' = [NoScore EXCEPT !.grade = get_quality_grade(s, 100)]
    /\ scorePc' = "graded"
    /\ UNCHANGED << coreVars, salesVars, checkVars >>

\* check results are given to the scoring of run_comprehensive_quality_check
ScoreGiven ==
    /\ scorePc = "idle"
    /\ \E r \in [1..3 -> RateChoices], t \in 0..MaxTotal,
          a \in 0..MaxAccuracy, d \in DayChoices :
         LET in == [score |-> 0, rates |-> r, total |-> t, accuracy |-> a,
                    days |-> d]
         IN /\ scoreIn' = in
            /\ scoreOut' = QualityScore(ScoreChecks(in), t)
    /\ scorePc' = "scored"
    /\ UNCHANGED << coreVars, salesVars, checkVars >>

NextScore ==
    \/ GradeGiven
    \/ ScoreGiven

InitScore ==
    /\ Init
    /\ config.validate_data
    /\ config.backup_raw_data
    /\ config.chunk_size = 1
    /\ files = Files(NoFile, NoFile, NoFile)

SpecScore == InitScore /\ [][NextScore]_vars

\* --------------------------------------------------------------- create_sale
\* Each request is handled in a thread of its own with a session of its
\* own (app.run serves threaded; db.session is scoped to the request). The
\* InventoryTransaction row update_stock adds is not part of the store here.
saleRest == << config, files, pipelineVars, recVars, schedVars, scoreVars,
               checkVars,
               session, calls, fixPc, fixes_applied, fixRet, fix, auditPc,
               auditRet >>

\* the response of request r
Respond(r, code) == reqs' = [reqs EXCEPT ![r].pc = "done", ![r].status = code]

\* POST /sales arrives with all required fields
SaleRequest(r, id, q) ==
    /\ reqs[r].pc = "idle"
    /\ reqs' = [reqs EXCEPT ![r].pc = "query", ![r].drug_id = id,
                            ![r].quantity = q]
    /\ UNCHANGED << store, stock0, saleRest >>

\* drug = Drug.query.get(...); 404 without a drug, 400 when the stock the
\* session has just read is below the quantity
SaleQuery(r) ==
    /\ reqs[r].pc = "query"
    /\ LET id == reqs[r].drug_id
       IN IF id \notin DOMAIN store.drugs
          THEN Respond(r, 404)
          ELSE IF store.drugs[id].stock_quantity < reqs[r].quantity
          THEN Respond(r, 400)
          ELSE reqs' = [reqs EXCEPT
                          ![r].pc = "update",
                          ![r].stock_quantity = store.drugs[id].stock_quantity]
    /\ UNCHANGED << store, stock0, saleRest >>

\* db.session.add(sale); drug.update_stock(-quantity, ...): the new value
\* is computed from the attribute of the session's Drug object, and a
\* negative one raises ValueError, answered with 400
SaleUpdateStock(r) ==
    /\ reqs[r].pc = "update"
    /\ LET new == reqs[r].stock_quantity - reqs[r].quantity
       IN IF new < 0
          THEN Respond(r, 400)
          ELSE reqs' = [reqs EXCEPT ![r].pc = "commit",
                                    ![r].stock_quantity = new]
    /\ UNCHANGED << store, stock0, saleRest >>

\* db.session.commit(): the flush inserts the sale and writes the Drug
\* object's stock_quantity with UPDATE drugs SET stock_quantity = <value>;
\* a commit the database refuses is rolled back and answered with 500
SaleCommit(r) ==
    /\ reqs[r].pc = "commit"
    /\ LET id == reqs[r].drug_id
       IN \/ /\ store' = [store EXCEPT
                            !.drugs[id].stock_quantity = reqs[r].stock_quantity,
                            !.drugs[id].last_updated = 1,
                            !.sales = Append(@, Sale(id, Today,
                                                     reqs[r].quantity, 0))]
             /\ Respond(r, 201)
          \/ /\ Respond(r, 500)
             /\ UNCHANGED store
    /\ UNCHANGED << stock0, saleRest >>

NextSales ==
    \/ \E r \in 1..MaxRequests, id \in {1, 9}, q \in 1..MaxQuantity :
          SaleRequest(r, id, q)
    \/ \E r \in 1..MaxRequests : SaleQuery(r)
    \/ \E r \in 1..MaxRequests : SaleUpdateStock(r)
    \/ \E r \in 1..MaxRequests : SaleCommit(r)

\* one drug in stock, no sale yet
InitSales ==
    /\ config = [validate_data |-> TRUE, backup_raw_data |-> TRUE, chunk_size |-> 1]
    /\ files = Files(NoFile, NoFile, NoFile)
    /\ PipelineIdle
    /\ RecIdle
    /\ MonIdle
    /\ SchedIdle
    /\ ScoreIdle
    /\ CheckIdle
    /\ reqs = [r \in 1..MaxRequests |-> NoReq]
    /\ stock0 \in 0..MaxStock
    /\ store = [EmptyStore EXCEPT
                  !.drugs = <<Drug(stock0, 5, Today + 50, "txt")>>]
    /\ session = store

SpecSales == InitSales /\ [][NextSales]_vars

\* ------------------------------------------------------------------- claims
StageRank(stage) ==
    CASE stage = "extract" -> 1
      [] stage = "transform" -> 2
      [] stage = "validate" -> 3
      [] stage = "load" -> 4
      [] stage = "archive" -> 5

Stages(r) == {r.stages[i] : i \in 1..Len(r.stages)}

RECURSIVE Flatten(_)
Flatten(chunks) ==
    IF chunks = <<>> THEN <<>> ELSE Head(chunks) \o Flatten(Tail(chunks))

RowsOf(table) == {table[i] : i \in 1..Len(table)}

\* C1: however a run_etl_pipeline call ends, _save_pipeline_stats has run
\* exactly once in it; when the call returns (True or False, whichever stage
\* failed) end_time was set in this run, after start_time, and the
\* statistics file holds the statistics of the object.
C1_StatsSavedBeforeReturn ==
    /\ etlPc \in {"returned", "raised"} => run.saves = 1
    /\ etlPc \in {"extract", "transform", "validate", "load", "loading",
                  "archive", "finally"} => run.saves = 0
    /\ etlPc = "returned" =>
          /\ stats.end_time = clock
          /\ stats.end_time > stats.start_time
          /\ stats.end_time > run.entry.end_time
          /\ statsFile = stats

\* a run in which a stage raised has returned False
C1_Witness ==
    /\ etlPc = "returned"
    /\ ~etlRet
    /\ run.raisedIn = "transform"
    /\ run.saves = 1

\* C2: the stages of one run start in the order Extract, Transform,
\* Validate (iff enabled), Load, Archive (only if enabled); Load starts only
\* after Extract and Transform completed, Archive only after Load returned
\* success, and a stage that raised is the last stage of the run, which
\* then returns False.
C2_StageOrder ==
    /\ \A i, j \in 1..Len(run.stages) :
          i < j => StageRank(run.stages[i]) < StageRank(run.stages[j])
    /\ "load" \in Stages(run) =>
          /\ SubSeq(run.stages, 1, 2) = <<"extract", "transform">>
          /\ run.raisedIn \notin {"extract", "transform", "validate"}
          /\ ("validate" \in Stages(run)) = config.validate_data
    /\ "archive" \in Stages(run) =>
          /\ "load" \in Stages(run)
          /\ ~run.loadFailed
          /\ etlPc \notin {"load", "loading"}
          /\ config.backup_raw_data
    /\ run.raisedIn # "none" =>
          /\ run.stages[Len(run.stages)] = run.raisedIn
          /\ etlPc \in {"finally", "returned", "raised"}
          /\ ~etlRet
    /\ run.loadFailed =>
          /\ "archive" \notin Stages(run)
          /\ etlPc \in {"finally", "returned", "raised"}
          /\ ~etlRet

\* a run that went through all five stages and returned True
C2_Witness ==
    /\ etlPc = "returned"
    /\ etlRet
    /\ run.stages = <<"extract", "transform", "validate", "load", "archive">>

\* C3: in a daily batch every entity that the loop has passed and whose
\* source file exists has had exactly one run_etl_pipeline call and has its
\* own Success or Failed outcome, whatever the outcomes before it; a batch
\* that returns has passed all three entities.
C3_FailureDoesNotStopBatch ==
    /\ dailyPc \in {"loop", "done"} =>
          \A i \in 1..(dailyIdx - 1) :
             files[DailyDataTypes[i]].exists =>
                /\ batch.calls[DailyDataTypes[i]] = 1
                /\ DailyDataTypes[i] \in DOMAIN results
                /\ results[DailyDataTypes[i]] \in {"Success", "Failed"}
    /\ dailyPc = "done" => dailyIdx = Len(DailyDataTypes) + 1

\* drugs failed, and sales and patients were still run
C3_Witness ==
    /\ dailyPc = "done"
    /\ results["drugs"] = "Failed"
    /\ batch.calls["sales"] = 1
    /\ results["sales"] = "Success"
    /\ batch.calls["patients"] = 1

\* C4: the batch handles drugs, sales, patients in that order; the result
\* it returns has exactly these three keys with values Success, Failed or
\* Skipped; an entity without source file is Skipped and gets no run.
C4_DailyResults ==
    /\ dailyPc \in {"loop", "done"} =>
          /\ DOMAIN results = {DailyDataTypes[i] : i \in 1..(dailyIdx - 1)}
          /\ etlCaller = "daily" =>
                /\ dailyIdx <= Len(DailyDataTypes)
                /\ data_type = DailyDataTypes[dailyIdx]
          /\ \A k \in DOMAIN results :
                /\ results[k] \in {"Success", "Failed", "Skipped"}
                /\ ~files[k].exists => results[k] = "Skipped" /\ batch.calls[k] = 0
                /\ files[k].exists => results[k] # "Skipped"
    /\ dailyPc = "done" => DOMAIN results = {"drugs", "sales", "patients"}

\* only the sales file is present
C4_Witness ==
    /\ dailyPc = "done"
    /\ results["drugs"] = "Skipped"
    /\ results["sales"] \in {"Success", "Failed"}
    /\ results["patients"] = "Skipped"
    /\ batch.calls = [s \in Sources |-> IF s = "sales" THEN 1 ELSE 0]

\* C5: a run that returns False has increased the error counter by one.
C5_FailedRunCountsError ==
    etlPc = "returned" /\ ~etlRet => stats.errors = run.entry.errors + 1

\* C6: a run whose archive write raised returns True and leaves the error
\* counter as it was.
C6_ArchiveFailureIsNotFatal ==
    etlPc = "returned" /\ run.raisedIn = "archive" =>
       /\ etlRet
       /\ stats.errors = run.entry.errors

\* C7: the counts persisted at the end of a run are those a fresh
\* statistics object would hold after this run alone.
C7_StatsFreshPerRun ==
    etlPc = "returned" =>
       /\ statsFile.files_processed = run.fresh.files_processed
       /\ statsFile.records_processed = run.fresh.records_processed
       /\ statsFile.errors = run.fresh.errors
       /\ statsFile.warnings = run.fresh.warnings

\* C8: once validation has produced its report, the warning counter is one
\* more than at the start of the run if the score is below 80 and unchanged
\* otherwise, and the run is at Load or has started it; validation is
\* skipped only when disabled.
C8_LowScoreWarnsAndLoads ==
    /\ run.validated =>
          /\ config.validate_data
          /\ stats.warnings =
                run.entry.warnings + (IF run.score < 8000 THEN 1 ELSE 0)
          /\ etlPc = "load" \/ "load" \in Stages(run)
    /\ etlPc # "idle" /\ ~run.validated => stats.warnings = run.entry.warnings
    /\ ("load" \in Stages(run) /\ config.validate_data) => run.validated

\* a low score was warned about and the load went through
C8_Witness ==
    /\ etlPc = "returned"
    /\ etlRet
    /\ run.validated
    /\ run.score < 8000
    /\ stats.warnings = run.entry.warnings + 1
    /\ "load" \in Stages(run)

\* C9: after a failed write of chunk k the call returns False, exactly the
\* k-1 chunks before it were written, and their rows are in the table.
C9_EarlierChunksRemain ==
    loadPc = "returned" /\ load.failedChunk > 0 =>
       /\ ~loadRet
       /\ Len(load.writes) = load.failedChunk - 1
       /\ \A i \in 1..Min((load.failedChunk - 1) * config.chunk_size,
                          Len(loadArgs.df.rows)) :
             loadArgs.df.rows[i] \in RowsOf(db[loadArgs.table_name])

\* C10: a load that met no write failure has issued ceil(N/C) chunk
\* writes, each of 1..C rows, whose concatenation is the record set; while
\* it runs, the chunks written so far are the first i rows.
C10_ChunkWritesCoverRows ==
    /\ loadPc = "chunk" =>
          Flatten(load.writes) =
             SubSeq(loadArgs.df.rows, 1, Min(loadI, Len(loadArgs.df.rows)))
    /\ loadPc = "returned" /\ loadRet =>
          LET N == Len(loadArgs.df.rows)
              C == config.chunk_size
          IN /\ Len(load.writes) = (N + C - 1) \div C
             /\ \A k \in 1..Len(load.writes) :
                   Len(load.writes[k]) \in 1..C
             /\ Flatten(load.writes) = loadArgs.df.rows

\* a load of several chunks, the last one partial
C10_Witness ==
    /\ loadPc = "returned"
    /\ loadRet
    /\ Len(loadArgs.df.rows) > config.chunk_size
    /\ Len(loadArgs.df.rows) % config.chunk_size # 0
    /\ Len(load.writes) > 1

\* the elements of a sequence of field names
FieldSet(fields) == {fields[i] : i \in 1..Len(fields)}

\* C18: no row of a transform's output has a null in a required field of
\* its entity type (drug: code, name, manufacturer, unit price; sale:
\* transaction id, drug reference, sale date, quantity; patient: first
\* name, last name, date of birth)
C18_RequiredFieldsPresent ==
    recPc = "transformed" =>
        \A i \in 1..Len(recOut.rows) :
            \A f \in FieldSet(RequiredFields(recType)) :
                recOut.rows[i].v[f] # NULL

\* C19: a transform given a record set that has the entity's columns never
\* raises, whatever the cells of its rows are
C19_TransformNeverRaises ==
    recPc # "raised"

\* the (check, field) pairs on which validate_data_quality has something to
\* report for df: a required field with a null cell, a numeric field with a
\* cell that is no number, a date field with a null cell
IssueKeys(df, dt) ==
    {<<"Missing values", f>> :
        f \in {g \in FieldSet(RequiredFields(dt)) \cap df.cols :
                 \E i \in 1..Len(df.rows) : df.rows[i].v[g] = NULL}}
    \cup
    {<<"Non-numeric values", f>> :
        f \in {g \in FieldSet(NumericFields(dt)) \cap df.cols :
                 \E i \in 1..Len(df.rows) : df.rows[i].v[g] \notin NumVals}}
    \cup
    {<<"Invalid dates", f>> :
        f \in {g \in FieldSet(DateFields(dt)) \cap df.cols :
                 \E i \in 1..Len(df.rows) : df.rows[i].v[g] = NULL}}

\* C20: the quality score is (total records - issue count) / total records
\* x 100 to two decimals, the issue count being the number of issue entries
\* (at most one per checked field per check, not the affected rows); it is 0
\* for an empty record set and 100 for a non-empty one without issues
C20_ScoreFromIssueEntries ==
    recPc = "validated" =>
        LET total == Len(recOut.rows)
            n == Cardinality(IssueKeys(recOut, recType))
            score == recReport.quality_score
            exact == (total - n) * 10000
            diff == score * total - exact
        IN /\ recReport.total_records = total
           /\ recReport.invalid_records = n
           /\ Len(recReport.issues) = n
           /\ n <= Len(RequiredFields(recType)) + Len(NumericFields(recType))
                   + Len(DateFields(recType))
           /\ total = 0 => score = 0
           /\ total > 0 => 2 * diff <= total /\ -(2 * diff) <= total
           /\ total > 0 /\ n = 0 => score = 10000

\* a record set was validated in which one issue entry covers two rows
C20_Witness ==
    /\ recPc = "validated"
    /\ Len(recOut.rows) = 2
    /\ \E k \in 1..Len(recReport.issues) : recReport.issues[k].count = 2
    /\ recReport.quality_score = 5000

\* C11: when the commit of fix_data_issues fails, the store is as it was
\* before the call and the caller gets a failure result with zero fixes
\* applied, not a raised exception
C11_CommitFailureIsAResult ==
    fix.commit = "failed" =>
        /\ store = fix.before
        /\ fixPc = "returned"
        /\ fixRet.fixes_applied = 0

\* the Fix Records of a result that concern one row of one table
FixesFor(details, table, id) ==
    {k \in 1..Len(details) : details[k].table = table /\ details[k].id = id}

\* C12: after fix_data_issues every drug that had stock_quantity < 0 has
\* stock_quantity 0 and exactly one Fix Record: table drugs, its id, field
\* stock_quantity, old_value the former quantity, new_value 0
C12_NegativeStockClamped ==
    fixPc = "returned" =>
        \A id \in DOMAIN fix.before.drugs :
            fix.before.drugs[id].stock_quantity < 0 =>
                /\ store.drugs[id].stock_quantity = 0
                /\ Cardinality(FixesFor(fixRet.details, "drugs", id)) = 1
                /\ \A k \in FixesFor(fixRet.details, "drugs", id) :
                       /\ fixRet.details[k].field = "stock_quantity"
                       /\ fixRet.details[k].old_value
                              = PyInt(fix.before.drugs[id].stock_quantity)
                       /\ fixRet.details[k].new_value = PyInt(0)

\* fix_data_issues returned after clamping two drugs
C12_Witness ==
    /\ fixPc = "returned"
    /\ Cardinality({id \in DOMAIN fix.before.drugs :
                      fix.before.drugs[id].stock_quantity < 0}) = 2
    /\ \A id \in DOMAIN store.drugs : store.drugs[id].stock_quantity = 0

\* C13: after fix_data_issues every sale whose drug_id matched no drug is
\* gone from the store, and no sale whose drug_id matches a drug is deleted
C13_OrphanedSalesDeleted ==
    fixPc = "returned" =>
        \A id \in DOMAIN fix.before.sales :
            id \in DOMAIN store.sales
                <=> fix.before.sales[id].drug_id \in DOMAIN fix.before.drugs

\* fix_data_issues returned after deleting one sale and keeping another
C13_Witness ==
    /\ fixPc = "returned"
    /\ DOMAIN fix.before.sales = {1, 2}
    /\ DOMAIN store.sales = {2}
    /\ fix.before.sales[1].drug_id \notin DOMAIN fix.before.drugs

\* C14: after fix_data_issues every surviving sale that was dated after
\* today is dated today, and no sale in the store is dated in the future
C14_FutureSalesResetToToday ==
    fixPc = "returned" =>
        \A id \in DOMAIN store.sales :
            /\ fix.before.sales[id].sale_date > Today
                   => store.sales[id].sale_date = Today
            /\ store.sales[id].sale_date <= Today

\* fix_data_issues returned after re-dating a sale of an existing drug
C14_Witness ==
    /\ fixPc = "returned"
    /\ \E id \in DOMAIN store.sales :
           /\ fix.before.sales[id].sale_date = Today + 10
           /\ store.sales[id].sale_date = Today

\* the rows fix_data_issues has no reason to touch are as before the call,
\* no row is created, and a surviving sale it touched differs in sale_date only
FixFrame ==
    /\ store.patients = fix.before.patients
    /\ DOMAIN store.drugs = DOMAIN fix.before.drugs
    /\ DOMAIN store.sales \subseteq DOMAIN fix.before.sales
    /\ \A id \in DOMAIN fix.before.drugs :
           fix.before.drugs[id].stock_quantity >= 0
               => store.drugs[id] = fix.before.drugs[id]
    /\ \A id \in DOMAIN fix.before.sales :
           /\ fix.before.sales[id].drug_id \in DOMAIN fix.before.drugs
           /\ fix.before.sales[id].sale_date <= Today
           => /\ id \in DOMAIN store.sales
              /\ store.sales[id] = fix.before.sales[id]
    /\ \A id \in DOMAIN store.sales :
           store.sales[id] # fix.before.sales[id]
               => store.sales[id]
                    = [fix.before.sales[id] EXCEPT !.sale_date = Today]

\* C15 as stated: fix_data_issues leaves everything but the three defect
\* patterns unchanged, creates no row, and on a row it touches modifies only
\* stock_quantity (to 0) or sale_date (to today) or removes the row
C15_OnlyClampRedateRemove ==
    fixPc \in {"returned", "raised"} =>
        /\ FixFrame
        /\ \A id \in DOMAIN fix.before.drugs :
               store.drugs[id] # fix.before.drugs[id]
                   => store.drugs[id]
                        = [fix.before.drugs[id] EXCEPT !.stock_quantity = 0]

\* C15 as amended: as stated, except that a clamped drug row also gets the
\* last_updated stamp of its UPDATE
C15_OnlyClampRedateRemoveStamp ==
    fixPc \in {"returned", "raised"} =>
        /\ FixFrame
        /\ \A id \in DOMAIN fix.before.drugs :
               store.drugs[id] # fix.before.drugs[id]
                   => store.drugs[id]
                        = [fix.before.drugs[id] EXCEPT !.stock_quantity = 0,
                                                       !.last_updated = 1]

\* fix_data_issues returned after clamping a drug next to one it left
\* alone, and re-dating a sale next to one it left alone
C15_Witness ==
    /\ fixPc = "returned"
    /\ \E a, b \in DOMAIN store.drugs :
           /\ store.drugs[a] # fix.before.drugs[a]
           /\ store.drugs[b] = fix.before.drugs[b]
    /\ \E a, b \in DOMAIN store.sales :
           /\ store.sales[a] # fix.before.sales[a]
           /\ store.sales[b] = fix.before.sales[b]
    /\ DOMAIN store.patients # {}

\* C16: run_comprehensive_quality_check completes without raising and
\* returns a report with an overall score and a grade for every store
\* state, the empty tables included
C16_AuditNeverRaises ==
    /\ auditPc # "raised"
    /\ auditPc = "returned" =>
           auditRet.quality_score.grade \in {"A", "B", "C", "D", "F"}

\* C17: no two scheduler-triggered jobs (daily ETL, quality check with its
\* auto-fix) execute at the same time, the immediate runs of start() and
\* the jobs of the scheduler loop included, also when start() is called
\* more than once
C17_JobsNeverOverlap ==
    Cardinality({a \in active : a.job \in {"etl", "quality"}}) <= 1

\* C21: for every record set and entity type the Validation Report has
\* valid_records >= 0 and a quality score within 0..100, also when the
\* number of issues exceeds the number of records
C21_ValidRecordsAndScoreInRange ==
    recPc = "validated" =>
        /\ recReport.valid_records >= 0
        /\ recReport.quality_score >= 0
        /\ recReport.quality_score <= 10000

\* C22: the grade is a total function of the overall score: score >= 90
\* gives A, 80 <= score < 90 gives B, 70 <= score < 80 gives C,
\* 60 <= score < 70 gives D, score < 60 gives F, so that 95, 85, 75, 65, 55
\* map to A, B, C, D, F
C22_GradeBoundaries ==
    scorePc = "graded" =>
        LET s == scoreIn.score
            g == scoreOut.grade
        IN /\ g \in {"A", "B", "C", "D", "F"}
           /\ g = "A" <=> s >= 9000
           /\ g = "B" <=> (8000 <= s /\ s < 9000)
           /\ g = "C" <=> (7000 <= s /\ s < 8000)
           /\ g = "D" <=> (6000 <= s /\ s < 7000)
           /\ g = "F" <=> s < 6000
           /\ s = 9500 => g = "A"
           /\ s = 8500 => g = "B"
           /\ s = 7500 => g = "C"
           /\ s = 6500 => g = "D"
           /\ s = 5500 => g = "F"

\* the score 90.00, the lowest A, was graded
C22_Witness ==
    /\ scorePc = "graded"
    /\ scoreIn.score = 9000
    /\ scoreOut.grade = "A"

\* the four consistency counts of the store st
FourCounts(st) ==
    Cardinality(OrphanedSales(st)) + Cardinality(NegativeStock(st))
    + Cardinality(FutureSales(st)) + Cardinality(ExpiredInStock(st))

\* C23: in the quality audit, consistency_score = max(0, 100 - 10 x T),
\* T being the sum of exactly the four consistency counts (orphaned sales,
\* drugs with negative stock, future-dated sales, expired drugs in stock)
\* and of nothing else in the consistency sub-report
C23_ConsistencyFromFourCounts ==
    (auditPc \in {"returned", "raised"} /\ auditRet.error # "OSError") =>
        /\ auditPc = "returned"
        /\ auditRet.quality_score.consistency
             = Max(0, 100 - 10 * FourCounts(session))

\* C24: for every store state the audit yields an overall quality score
\* that equals 0.4 x average completeness + 0.3 x consistency_score
\* + 0.2 x accuracy_score + 0.1 x timeliness_score (stored to two decimals),
\* each component lies in 0..100, and so the overall score lies in 0..100
C24_OverallIsWeightedSum ==
    (auditPc \in {"returned", "raised"} /\ auditRet.error # "OSError") =>
        /\ auditPc = "returned"
        /\ LET q == auditRet.quality_score
               c == auditRet.checks
               avg3 == c.completeness_drugs.completeness_rate
                       + c.completeness_sales.completeness_rate
                       + c.completeness_patients.completeness_rate
               \* 3000 x the weighted sum in percent
               exact == 4 * avg3 + 900 * q.consistency + 600 * q.accuracy
                        + 300 * q.timeliness
               \* 3000 x (stored overall - weighted sum), both in percent
               diff == 30 * q.overall - exact
           IN /\ diff <= 15 /\ -diff <= 15
              /\ q.completeness >= 0 /\ q.completeness <= 10000
              /\ q.consistency >= 0 /\ q.consistency <= 100
              /\ q.accuracy >= 0 /\ q.accuracy <= 100
              /\ q.timeliness >= 0 /\ q.timeliness <= 100
              /\ q.overall >= 0 /\ q.overall <= 10000

\* C25: run_etl_pipeline called for an entity type without a source file
\* extracts from the source configured for that same entity type: a sales
\* run reads the sales source, a patients run the patients source, never
\* the drugs source
C25_ReadsOwnSource ==
    (etlPc = "transform" /\ source_file = "none" /\ data_type \in Sources) =>
        /\ files[data_type].exists
        /\ df_raw = files[data_type].df

\* C26: after load_to_database returns True for a record set of N rows the
\* target table contains all N rows, for every chunk size and for both
\* modes; in append mode the rows that were in the table before the call
\* are still present as well
C26_TableHoldsAllRows ==
    loadPc = "returned" /\ loadRet =>
        LET table == RowsOf(db[loadArgs.table_name])
        IN /\ \A i \in 1..Len(loadArgs.df.rows) : loadArgs.df.rows[i] \in table
           /\ loadArgs.mode = "append" => RowsOf(load.before) \subseteq table

\* the quantities of the sales in a sales table, added up
RECURSIVE SoldQuantity(_)
SoldQuantity(sales) ==
    IF sales = <<>> THEN 0
    ELSE sales[Len(sales)].quantity
         + SoldQuantity(SubSeq(sales, 1, Len(sales) - 1))

\* C27: create_sale requests for the same drug that are handled
\* concurrently never oversell: the quantities of the committed sales add
\* up to no more than the stock before the requests, and once the requests
\* are answered stock_quantity is that stock minus the sum
C27_NeverOversell ==
    /\ SoldQuantity(store.sales) <= stock0
    /\ (\A r \in 1..MaxRequests : reqs[r].pc \in {"idle", "done"}) =>
           store.drugs[1].stock_quantity = stock0 - SoldQuantity(store.sales)

\* check_consistency finds no orphaned sale, no negative stock and no
\* future-dated sale in the store st
ReportsNoDefect(st) ==
    LET c == check_consistency(st)
    IN /\ c.orphaned_sales = PyInt(0)
       /\ c.negative_stock = PyInt(0)
       /\ c.future_sales = PyInt(0)

\* C28: fix_data_issues is idempotent on the store: directly after a
\* successful invocation check_consistency reports 0 orphaned sales, 0
\* negative-stock drugs and 0 future-dated sales, an invocation on such a
\* store (a second invocation) applies zero fixes and changes nothing, and
\* the returned fixes_applied equals the number of Fix Records in details
C28_FixIsIdempotent ==
    fixPc = "returned" =>
        /\ ReportsNoDefect(store)
        /\ ReportsNoDefect(fix.before) =>
               /\ fixRet.fixes_applied = 0
               /\ store = fix.before
        /\ fixRet.fixes_applied = Len(fixRet.details)

\* the second of two invocations has returned: the first one clamped a
\* drug, the second one found nothing to fix
C28_Witness ==
    /\ fixPc = "returned"
    /\ calls = 2
    /\ fixRet.fixes_applied = 0
    /\ store = fix.before
    /\ \E id \in DOMAIN store.drugs :
           store.drugs[id].stock_quantity = 0 /\ store.drugs[id].last_updated = 1

====
